---------------------------- MODULE Spec2Model ----------------------------
(***************************************************************************)
(* Model of the Tencent COS storage driver of docker/distribution          *)
(* (registry/storage/driver/cos/cos.go): the chunked multipart writer, the *)
(* server-side copy used by Move, and the in-memory object store they talk *)
(* to.  Sizes are scaled down: one model byte stands for a block of bytes, *)
(* and the size constants keep the order relations of the source           *)
(* (defaultChunkSize = 2 * minChunkSize, copy threshold = copy chunk).     *)
(***************************************************************************)
EXTENDS Integers, Sequences, FiniteSets, TLC

VARIABLES
    objects,     \* the bucket: key -> content, defined on the keys that exist
    uploads,     \* multipart uploads ever initiated, indexed by upload id
    w,           \* the writer instance held by the caller (or NoWriter)
    wid,         \* number of writer instances created so far
    written,     \* bytes accepted so far by the Write calls of the writer
    resumed,     \* the writer was opened with append = true
    succeeded,   \* which of Commit, Cancel returned nil on the writer
    clean,       \* no store call of the current writer's life has failed
    failures,    \* number of store calls the transport has failed so far
    ret,         \* what the last driver / writer call returned
    calls,       \* the store calls issued by the last driver / writer call
    ChunkSize,   \* driver.ChunkSize, fixed at construction
    cp           \* the running copy: its tasks, its parts array and its channels

vars ==
    <<objects, uploads, w, wid, written, resumed, succeeded, clean, failures, ret, calls,
      ChunkSize, cp>>

-----------------------------------------------------------------------------
(* Program constants (scaled) *)

listMax == 2
minChunkSize == 2
defaultChunkSize == 2 * minChunkSize
multipartCopyMaxConcurrency == 2
multipartCopyThresholdSize == 2
multipartCopyChunkSize == 2

(* Bounds of the model *)

MaxWriteLen == 3      \* longest argument of one Write call
MaxWriters == 2       \* most writers opened in one run
MaxSize == MaxWriteLen + 2        \* most bytes written to one key
MaxUploads == MaxWriters + 1      \* most multipart uploads initiated in one run
MaxFailures == 1      \* most store calls the transport fails in one run
MaxObjectSize == 5    \* largest object put into the bucket for Move
MaxChunkSize == 3     \* largest configured ChunkSize
MaxContentLen == 1    \* length of the non-empty content given to PutContent

-----------------------------------------------------------------------------
(* Paths and keys are sequences of characters *)

RootDirectory == <<>>

RECURSIVE TrimLeft(_, _)
TrimLeft(s, ch) ==
    IF s # <<>> /\ Head(s) = ch THEN TrimLeft(Tail(s), ch) ELSE s

RECURSIVE TrimRight(_, _)
TrimRight(s, ch) ==
    IF s # <<>> /\ s[Len(s)] = ch
    THEN TrimRight(SubSeq(s, 1, Len(s) - 1), ch)
    ELSE s

cosPath(path) == TrimLeft(TrimRight(RootDirectory, "/") \o path, "/")

WriterPath == <<"/", "a">>
SourcePath == <<"/", "s">>
DestPath == <<"/", "d">>

-----------------------------------------------------------------------------
(* Small helpers *)

Min(a, b) == IF a < b THEN a ELSE b

RECURSIVE Flatten(_)
Flatten(ss) == IF ss = <<>> THEN <<>> ELSE Head(ss) \o Flatten(Tail(ss))

RECURSIVE SumSizes(_)
SumSizes(ps) == IF ps = <<>> THEN 0 ELSE Head(ps).Size + SumSizes(Tail(ps))

NoWriter ==
    [open |-> FALSE, key |-> <<>>, uploadID |-> 0, parts |-> <<>>, size |-> 0,
     readyPart |-> <<>>, pendingPart |-> <<>>,
     closed |-> FALSE, committed |-> FALSE, cancelled |-> FALSE]
NoErr == "nil"
PathNotFound == "PathNotFoundError"

NoCopy ==
    [main |-> "idle", size |-> 0, uploadID |-> 0, parts |-> <<>>, task |-> <<>>,
     terr |-> <<>>, sent |-> <<>>, received |-> 0, err |-> NoErr]


-----------------------------------------------------------------------------
(* The object store behind d.Client.  An environment e carries the bucket,  *)
(* the multipart uploads, the log of the store calls issued by the running  *)
(* operation, and fails: the positions in that log of the calls the         *)
(* transport fails.  A failed call changes nothing in the store.            *)
(* Every call returns [e, err, val].                                        *)

TransportError == "TransportError"
NoSuchKey == "NoSuchKey"
NoSuchUpload == "NoSuchUpload"
InvalidPart == "InvalidPart"
EntityTooSmall == "EntityTooSmall"

Call(name, key, id, num, size, parts) ==
    [name |-> name, key |-> key, id |-> id, num |-> num, size |-> size,
     parts |-> parts, err |-> NoErr]

EnvOf(objs, ups, fails) ==
    [objects |-> objs, uploads |-> ups, calls |-> <<>>, fails |-> fails,
     clean |-> TRUE]

Env(fails) == EnvOf(objects, uploads, fails)

Injected(e) == (Len(e.calls) + 1) \in e.fails

Logged(e, c, err) ==
    [e EXCEPT !.calls = Append(@, [c EXCEPT !.err = err]), !.clean = @ /\ err = NoErr]

IsOpen(e, key, id) ==
    /\ id \in 1..Len(e.uploads)
    /\ e.uploads[id].status = "open"
    /\ e.uploads[id].key = key

InitiateMultipartUpload(e, key) ==
    LET err == IF Injected(e) THEN TransportError ELSE NoErr
        id == Len(e.uploads) + 1
        e1 == Logged(e, Call("InitiateMultipartUpload", key, 0, 0, 0, <<>>), err)
    IN  IF err # NoErr
        THEN [e |-> e1, err |-> err, val |-> 0]
        ELSE [e |-> [e1 EXCEPT !.uploads =
                        Append(@, [key |-> key, parts |-> <<>>, status |-> "open"])],
              err |-> NoErr, val |-> id]

UploadPart(e, key, id, partNumber, body) ==
    LET err == IF Injected(e) THEN TransportError
               ELSE IF ~IsOpen(e, key, id) THEN NoSuchUpload
               ELSE NoErr
        e1 == Logged(e, Call("UploadPart", key, id, partNumber, Len(body), <<>>), err)
    IN  IF err # NoErr
        THEN [e |-> e1, err |-> err, val |-> <<>>]
        ELSE [e |-> [e1 EXCEPT !.uploads[id].parts = (partNumber :> body) @@ @],
              err |-> NoErr, val |-> body]

(* Part-copy of bytes first..last (0-based, inclusive) of the object at     *)
(* srcKey.  The Size field of the returned part record is not fixed by the  *)
(* driver's source: sizeKnown chooses between the part's length and 0.      *)
UploadPartCopy(e, destKey, srcKey, id, partNumber, first, last, sizeKnown) ==
    LET err == IF Injected(e) THEN TransportError
               ELSE IF ~IsOpen(e, destKey, id) THEN NoSuchUpload
               ELSE IF srcKey \notin DOMAIN e.objects THEN NoSuchKey
               ELSE NoErr
        e1 == Logged(e, Call("UploadPartCopy", destKey, id, partNumber, last - first + 1, <<>>), err)
    IN  IF err # NoErr
        THEN [e |-> e1, err |-> err, val |-> <<>>]
        ELSE LET body == SubSeq(e.objects[srcKey], first + 1, last + 1)
             IN  [e |-> [e1 EXCEPT !.uploads[id].parts = (partNumber :> body) @@ @],
                  err |-> NoErr,
                  val |-> [PartNumber |-> partNumber, ETag |-> body,
                           Size |-> IF sizeKnown THEN Len(body) ELSE 0]]

PartsKnown(up, parts) ==
    \A i \in 1..Len(parts) :
        /\ parts[i].PartNumber \in DOMAIN up.parts
        /\ up.parts[parts[i].PartNumber] = parts[i].ETag

Ascending(parts) ==
    \A i \in 1..(Len(parts) - 1) : parts[i].PartNumber < parts[i + 1].PartNumber

NonFinalLargeEnough(up, parts) ==
    \A i \in 1..(Len(parts) - 1) : Len(up.parts[parts[i].PartNumber]) >= minChunkSize

CompleteMultipartUpload(e, key, id, parts) ==
    LET err == IF Injected(e) THEN TransportError
               ELSE IF ~IsOpen(e, key, id) THEN NoSuchUpload
               ELSE IF parts = <<>> \/ ~PartsKnown(e.uploads[id], parts)
                       \/ ~Ascending(parts) THEN InvalidPart
               ELSE IF ~NonFinalLargeEnough(e.uploads[id], parts) THEN EntityTooSmall
               ELSE NoErr
        listed == [i \in 1..Len(parts) |->
                      [PartNumber |-> parts[i].PartNumber, ETag |-> parts[i].ETag]]
        e1 == Logged(e, Call("CompleteMultipartUpload", key, id, 0, 0, listed), err)
    IN  IF err # NoErr
        THEN [e |-> e1, err |-> err, val |-> <<>>]
        ELSE LET body == Flatten([i \in 1..Len(parts) |->
                                     e.uploads[id].parts[parts[i].PartNumber]])
             IN  [e |-> [e1 EXCEPT !.uploads[id].status = "completed",
                                   !.uploads[id].parts = <<>>,
                                   !.objects = (key :> body) @@ @],
                  err |-> NoErr, val |-> <<>>]

AbortMultipartUpload(e, key, id) ==
    LET err == IF Injected(e) THEN TransportError
               ELSE IF ~IsOpen(e, key, id) THEN NoSuchUpload
               ELSE NoErr
        e1 == Logged(e, Call("AbortMultipartUpload", key, id, 0, 0, <<>>), err)
    IN  IF err # NoErr
        THEN [e |-> e1, err |-> err, val |-> <<>>]
        ELSE [e |-> [e1 EXCEPT !.uploads[id].status = "aborted",
                               !.uploads[id].parts = <<>>],
              err |-> NoErr, val |-> <<>>]

ObjectGet(e, key) ==
    LET err == IF Injected(e) THEN TransportError
               ELSE IF key \notin DOMAIN e.objects THEN NoSuchKey
               ELSE NoErr
        e1 == Logged(e, Call("Get", key, 0, 0, 0, <<>>), err)
    IN  [e |-> e1, err |-> err,
         val |-> IF err = NoErr THEN e.objects[key] ELSE <<>>]

ObjectPut(e, key, body) ==
    LET err == IF Injected(e) THEN TransportError ELSE NoErr
        e1 == Logged(e, Call("Put", key, 0, 0, Len(body), <<>>), err)
    IN  IF err # NoErr
        THEN [e |-> e1, err |-> err, val |-> <<>>]
        ELSE [e |-> [e1 EXCEPT !.objects = (key :> body) @@ @],
              err |-> NoErr, val |-> <<>>]

Without(f, k) == [x \in DOMAIN f \ {k} |-> f[x]]

ObjectDelete(e, key) ==
    LET err == IF Injected(e) THEN TransportError ELSE NoErr
        e1 == Logged(e, Call("Delete", key, 0, 0, 0, <<>>), err)
    IN  IF err # NoErr
        THEN [e |-> e1, err |-> err, val |-> <<>>]
        ELSE [e |-> [e1 EXCEPT !.objects = Without(@, key)],
              err |-> NoErr, val |-> <<>>]

ObjectCopy(e, destKey, srcKey) ==
    LET err == IF Injected(e) THEN TransportError
               ELSE IF srcKey \notin DOMAIN e.objects THEN NoSuchKey
               ELSE NoErr
        e1 == Logged(e, Call("Copy", destKey, 0, 0, 0, <<>>), err)
    IN  IF err # NoErr
        THEN [e |-> e1, err |-> err, val |-> <<>>]
        ELSE [e |-> [e1 EXCEPT !.objects = (destKey :> e.objects[srcKey]) @@ @],
              err |-> NoErr, val |-> <<>>]

(* Keys are listed in byte order of their characters *)
Ord(ch) == CASE ch = "-" -> 45 [] ch = "/" -> 47 [] ch = "a" -> 97
             [] ch = "b" -> 98 [] ch = "d" -> 100 [] ch = "s" -> 115
             [] ch = "x" -> 120

RECURSIVE KeyLess(_, _)
KeyLess(a, b) ==
    IF a = <<>> THEN b # <<>>
    ELSE IF b = <<>> THEN FALSE
    ELSE IF Head(a) = Head(b) THEN KeyLess(Tail(a), Tail(b))
    ELSE Ord(Head(a)) < Ord(Head(b))

HasPrefix(s, prefix) ==
    Len(s) >= Len(prefix) /\ SubSeq(s, 1, Len(prefix)) = prefix

RECURSIVE SortedKeys(_)
SortedKeys(S) ==
    IF S = {} THEN <<>>
    ELSE LET k == CHOOSE x \in S : \A y \in S \ {x} : KeyLess(x, y)
         IN  <<k>> \o SortedKeys(S \ {k})

(* Bucket.Get without delimiter: the first maxKeys keys with the prefix *)
BucketGet(e, prefix, maxKeys) ==
    LET err == IF Injected(e) THEN TransportError ELSE NoErr
        e1 == Logged(e, Call("BucketGet", prefix, 0, maxKeys, 0, <<>>), err)
        all == SortedKeys({k \in DOMAIN e.objects : HasPrefix(k, prefix)})
        page == SubSeq(all, 1, Min(Len(all), maxKeys))
    IN  [e |-> e1, err |-> err,
         val |-> IF err # NoErr
                 THEN [Contents |-> <<>>, CommonPrefixes |-> <<>>, IsTruncated |-> FALSE]
                 ELSE [Contents |-> [i \in 1..Len(page) |->
                                        [Key |-> page[i], Size |-> Len(e.objects[page[i]])]],
                       CommonPrefixes |-> <<>>,
                       IsTruncated |-> Len(all) > Len(page)]]

(* Bucket.Get with delimiter "/" and a marker.  A key with the prefix whose  *)
(* rest holds a "/" is rolled up into the common prefix that ends at that   *)
(* "/"; the other keys with the prefix are the contents.  The entries after *)
(* the marker are listed in key order, maxKeys to a page; NextMarker is the *)
(* last entry of a truncated page.                                          *)
RECURSIVE IndexOf(_, _, _)
IndexOf(s, ch, i) ==
    IF i > Len(s) THEN 0 ELSE IF s[i] = ch THEN i ELSE IndexOf(s, ch, i + 1)

EntryOf(key, prefix) ==
    IF IndexOf(key, "/", Len(prefix) + 1) = 0
    THEN [Key |-> key, IsPrefix |-> FALSE]
    ELSE [Key |-> SubSeq(key, 1, IndexOf(key, "/", Len(prefix) + 1)), IsPrefix |-> TRUE]

EntriesAfter(e, prefix, marker) ==
    LET entries == {EntryOf(k, prefix) : k \in {x \in DOMAIN e.objects : HasPrefix(x, prefix)}}
        names == {n \in {x.Key : x \in entries} : KeyLess(marker, n)}
        sorted == SortedKeys(names)
    IN  [i \in 1..Len(sorted) |-> CHOOSE x \in entries : x.Key = sorted[i]]

RECURSIVE ContentsOf(_, _)
ContentsOf(page, e) ==
    IF page = <<>> THEN <<>>
    ELSE IF Head(page).IsPrefix THEN ContentsOf(Tail(page), e)
    ELSE <<[Key |-> Head(page).Key, Size |-> Len(e.objects[Head(page).Key])]>>
             \o ContentsOf(Tail(page), e)

RECURSIVE CommonPrefixesOf(_)
CommonPrefixesOf(page) ==
    IF page = <<>> THEN <<>>
    ELSE IF Head(page).IsPrefix
    THEN <<Head(page).Key>> \o CommonPrefixesOf(Tail(page))
    ELSE CommonPrefixesOf(Tail(page))

ListedPage(e, all, maxKeys) ==
    [Contents |-> ContentsOf(SubSeq(all, 1, Min(Len(all), maxKeys)), e),
     CommonPrefixes |-> CommonPrefixesOf(SubSeq(all, 1, Min(Len(all), maxKeys))),
     IsTruncated |-> Len(all) > maxKeys,
     NextMarker |-> IF Len(all) > maxKeys THEN all[maxKeys].Key ELSE <<>>]

BucketGetDelimited(e, prefix, marker, maxKeys) ==
    LET err == IF Injected(e) THEN TransportError ELSE NoErr
    IN  [e |-> Logged(e, Call("BucketGet", prefix, 0, maxKeys, 0, <<>>), err),
         err |-> err,
         val |-> IF err # NoErr
                 THEN [Contents |-> <<>>, CommonPrefixes |-> <<>>,
                       IsTruncated |-> FALSE, NextMarker |-> <<>>]
                 ELSE ListedPage(e, EntriesAfter(e, prefix, marker), maxKeys)]

(* Object.DeleteMulti removes the listed keys *)
DeleteMulti(e, keys) ==
    LET err == IF Injected(e) THEN TransportError ELSE NoErr
        e1 == Logged(e, Call("DeleteMulti", <<>>, 0, 0, Len(keys), keys), err)
    IN  IF err # NoErr
        THEN [e |-> e1, err |-> err, val |-> <<>>]
        ELSE [e |-> [e1 EXCEPT !.objects =
                        [k \in DOMAIN e.objects \ {keys[i] : i \in 1..Len(keys)} |->
                            e.objects[k]]],
              err |-> NoErr, val |-> <<>>]

(* In-flight uploads whose key has the prefix, and the parts of one upload *)
ListMultipartUploads(e, prefix) ==
    LET err == IF Injected(e) THEN TransportError ELSE NoErr
        e1 == Logged(e, Call("ListMultipartUploads", prefix, 0, 0, 0, <<>>), err)
    IN  [e |-> e1, err |-> err,
         val |-> IF err # NoErr THEN {}
                 ELSE {id \in 1..Len(e.uploads) :
                          /\ e.uploads[id].status = "open"
                          /\ HasPrefix(e.uploads[id].key, prefix)}]

RECURSIVE PartRecords(_, _)
PartRecords(ps, n) ==
    IF \A k \in DOMAIN ps : k < n THEN <<>>
    ELSE IF n \in DOMAIN ps
         THEN <<[PartNumber |-> n, ETag |-> ps[n], Size |-> Len(ps[n])]>>
                  \o PartRecords(ps, n + 1)
         ELSE PartRecords(ps, n + 1)

ListParts(e, key, id) ==
    LET err == IF Injected(e) THEN TransportError
               ELSE IF ~IsOpen(e, key, id) THEN NoSuchUpload
               ELSE NoErr
        e1 == Logged(e, Call("ListParts", key, id, 0, 0, <<>>), err)
    IN  [e |-> e1, err |-> err,
         val |-> IF err # NoErr THEN <<>> ELSE PartRecords(e.uploads[id].parts, 1)]


-----------------------------------------------------------------------------
(* The writer.  Its methods are functions of the writer record and the      *)
(* environment; they return the new writer, the new environment and the     *)
(* call's results.  A method is split where it calls the store: the         *)
(* operator that follows a call takes the call's result as a parameter.     *)

AlreadyClosed == "already closed"
AlreadyCommitted == "already committed"
AlreadyCancelled == "already cancelled"
Diverges == "never returns"

newWriter(key, uploadID, parts) ==
    [open |-> TRUE, key |-> key, uploadID |-> uploadID, parts |-> parts,
     size |-> SumSizes(parts), readyPart |-> <<>>, pendingPart |-> <<>>,
     closed |-> FALSE, committed |-> FALSE, cancelled |-> FALSE]

(* flushPart, cos.go 651-656: a short pending buffer joins the ready one *)
flushPartMerge(w0) ==
    IF Len(w0.pendingPart) < ChunkSize
    THEN [w0 EXCEPT !.readyPart = @ \o w0.pendingPart, !.pendingPart = <<>>]
    ELSE w0

(* The end of flushPart that forgets the pending buffer *)
flushPartRecordLosesPending(w1, r) ==
    IF r.err # NoErr
    THEN [w |-> w1, e |-> r.e, err |-> r.err]
    ELSE [w |-> [w1 EXCEPT
                   !.parts = Append(@, [PartNumber |-> Len(w1.parts) + 1,
                                        ETag |-> r.val, Size |-> 0]),
                   !.readyPart = <<>>,
                   !.pendingPart = <<>>],
          e |-> r.e, err |-> NoErr]

(* flushPart, cos.go 667-677: r is what UploadPart returned.  The part is   *)
(* recorded with its ETag and PartNumber; its Size stays 0.                 *)
flushPartRecord(w1, r) ==
    IF r.err # NoErr
    THEN [w |-> w1, e |-> r.e, err |-> r.err]
    ELSE [w |-> [w1 EXCEPT
                   !.parts = Append(@, [PartNumber |-> Len(w1.parts) + 1,
                                        ETag |-> r.val, Size |-> 0]),
                   !.readyPart = w1.pendingPart,
                   !.pendingPart = <<>>],
          e |-> r.e, err |-> NoErr]

flushPartUpload(w1, e0) ==
    flushPartRecord(w1, UploadPart(e0, w1.key, w1.uploadID, Len(w1.parts) + 1,
                                   w1.readyPart))

flushPart(w0, e0) ==
    IF Len(w0.readyPart) = 0 /\ Len(w0.pendingPart) = 0
    THEN [w |-> w0, e |-> e0, err |-> NoErr]
    ELSE flushPartUpload(flushPartMerge(w0), e0)

(* The first half of an iteration leaving readyPart as it is *)
fillReadySkipped(w0, p, n) == [w |-> w0, p |-> p, n |-> n]

(* One iteration of the loop of Write (cos.go 561-591) in two halves.       *)
(* fillReady, 563-573: top up readyPart from p.                             *)
fillReady(w0, p, n) ==
    LET neededBytes == ChunkSize - Len(w0.readyPart)
        take == IF neededBytes > 0 THEN Min(neededBytes, Len(p)) ELSE 0
    IN  [w |-> [w0 EXCEPT !.readyPart = @ \o SubSeq(p, 1, take)],
         p |-> SubSeq(p, take + 1, Len(p)),
         n |-> n + take]

(* 580-584: f is what flushPart returned *)
fillFlushed(f, p, n) == [w |-> f.w, e |-> f.e, p |-> p, n |-> n, err |-> f.err]

(* fillPending, 575-590: top up pendingPart, and flush when it is full *)
fillPending(s, e0) ==
    LET neededBytes == ChunkSize - Len(s.w.pendingPart)
    IN  IF neededBytes > 0 /\ Len(s.p) >= neededBytes
        THEN fillFlushed(
                 flushPart([s.w EXCEPT !.pendingPart = @ \o SubSeq(s.p, 1, neededBytes)],
                           e0),
                 SubSeq(s.p, neededBytes + 1, Len(s.p)), s.n + neededBytes)
        ELSE IF neededBytes > 0
        THEN [w |-> [s.w EXCEPT !.pendingPart = @ \o s.p], e |-> e0, p |-> <<>>,
              n |-> s.n + Len(s.p), err |-> NoErr]
        ELSE [w |-> s.w, e |-> e0, p |-> s.p, n |-> s.n, err |-> NoErr]

(* The loop of Write.  s is the state after one iteration on p.  When both  *)
(* buffers are full and bytes remain, an iteration consumes nothing and     *)
(* changes nothing: the loop never ends.                                    *)
RECURSIVE writeLoop(_, _, _, _)
RECURSIVE writeIterated(_, _)

(* The loop's exit on a failed flush that leaves the count out of size *)
writeIteratedDropsCount(s, p) ==
    IF s.err # NoErr
    THEN [w |-> s.w, e |-> s.e, n |-> s.n, err |-> s.err]
    ELSE IF Len(s.p) = Len(p)
    THEN [w |-> s.w, e |-> s.e, n |-> s.n, err |-> Diverges]
    ELSE writeLoop(s.w, s.e, s.p, s.n)

writeIterated(s, p) ==
    IF s.err # NoErr
    THEN [w |-> [s.w EXCEPT !.size = @ + s.n], e |-> s.e, n |-> s.n, err |-> s.err]
    ELSE IF Len(s.p) = Len(p)
    THEN [w |-> s.w, e |-> s.e, n |-> s.n, err |-> Diverges]
    ELSE writeLoop(s.w, s.e, s.p, s.n)

writeLoop(w0, e0, p, n) ==
    IF Len(p) = 0
    THEN [w |-> [w0 EXCEPT !.size = @ + n], e |-> e0, n |-> n, err |-> NoErr]
    ELSE writeIterated(fillPending(fillReady(w0, p, n), e0), p)

(* sort.Sort(cos.ObjectList(opt.Parts)), cos.go 523: the parts in the order *)
(* of their numbers, every one of them kept                                 *)
SortByPartNumber(parts) ==
    LET RECURSIVE insert(_, _)
        insert(s, x) ==
            IF s = <<>> THEN <<x>>
            ELSE IF x.PartNumber < Head(s).PartNumber THEN <<x>> \o s
            ELSE <<Head(s)>> \o insert(Tail(s), x)
        RECURSIVE from(_)
        from(k) == IF k = 0 THEN <<>> ELSE insert(from(k - 1), parts[k])
    IN  from(Len(parts))

ObjectSize(e, key) == IF key \in DOMAIN e.objects THEN Len(e.objects[key]) ELSE 0

(* The download re-seed that keeps the parts of the completed upload *)
repairReadKeepsParts(w1, g) ==
    IF g.err # NoErr
    THEN [w |-> w1, e |-> g.e, err |-> g.err]
    ELSE [w |-> [w1 EXCEPT !.readyPart = g.val], e |-> g.e, err |-> NoErr]

(* The small-last-part repair at the head of Write (cos.go 515-557).        *)
(* 540-548: g is what Get returned; the object becomes readyPart.           *)
repairRead(w1, g) ==
    IF g.err # NoErr
    THEN [w |-> w1, e |-> g.e, err |-> g.err]
    ELSE [w |-> [w1 EXCEPT !.parts = <<>>, !.readyPart = g.val],
          e |-> g.e, err |-> NoErr]

(* 551-555: u is what UploadPartCopy returned; the object becomes part 1 *)
repairCopied(w1, u) ==
    IF u.err # NoErr
    THEN [w |-> w1, e |-> u.e, err |-> u.err]
    ELSE [w |-> [w1 EXCEPT !.parts = <<u.val>>], e |-> u.e, err |-> NoErr]

(* 531-556: v is what InitiateMultipartUpload returned *)
repairInitiated(w0, v, sizeKnown) ==
    IF v.err # NoErr
    THEN [w |-> w0, e |-> v.e, err |-> v.err]
    ELSE IF w0.size < minChunkSize
    THEN repairRead([w0 EXCEPT !.uploadID = v.val], ObjectGet(v.e, w0.key))
    ELSE repairCopied([w0 EXCEPT !.uploadID = v.val],
                      UploadPartCopy(v.e, w0.key, w0.key, v.val, 1,
                                     0, ObjectSize(v.e, w0.key) - 1, sizeKnown))

(* 524-531: c is what CompleteMultipartUpload returned *)
repairCompleted(w0, c, sizeKnown) ==
    IF c.err # NoErr
    THEN [w |-> w0, e |-> AbortMultipartUpload(c.e, w0.key, w0.uploadID).e,
          err |-> c.err]
    ELSE repairInitiated(w0, InitiateMultipartUpload(c.e, w0.key), sizeKnown)

repair(w0, e0, sizeKnown) ==
    repairCompleted(w0,
                    CompleteMultipartUpload(e0, w0.key, w0.uploadID,
                                            SortByPartNumber(w0.parts)),
                    sizeKnown)

Repairs(w0) ==
    Len(w0.parts) > 0 /\ w0.parts[Len(w0.parts)].Size < minChunkSize

(* Write after the repair: r is what the repair returned *)
writeRepaired(r, p) ==
    IF r.err # NoErr
    THEN [w |-> r.w, e |-> r.e, n |-> 0, err |-> r.err]
    ELSE writeLoop(r.w, r.e, p, 0)

(* Write that does not look at the closed flag *)
writerWriteNoClosedCheck(w0, e0, p, sizeKnown) ==
    IF w0.committed
    THEN [w |-> w0, e |-> e0, n |-> 0, err |-> AlreadyCommitted]
    ELSE IF w0.cancelled
    THEN [w |-> w0, e |-> e0, n |-> 0, err |-> AlreadyCancelled]
    ELSE IF Repairs(w0)
    THEN writeRepaired(repair(w0, e0, sizeKnown), p)
    ELSE writeLoop(w0, e0, p, 0)

(* Write without the small-last-part repair *)
writerWriteNoRepair(w0, e0, p, sizeKnown) ==
    IF w0.closed
    THEN [w |-> w0, e |-> e0, n |-> 0, err |-> AlreadyClosed]
    ELSE IF w0.committed
    THEN [w |-> w0, e |-> e0, n |-> 0, err |-> AlreadyCommitted]
    ELSE IF w0.cancelled
    THEN [w |-> w0, e |-> e0, n |-> 0, err |-> AlreadyCancelled]
    ELSE writeLoop(w0, e0, p, 0)

writerWrite(w0, e0, p, sizeKnown) ==
    IF w0.closed
    THEN [w |-> w0, e |-> e0, n |-> 0, err |-> AlreadyClosed]
    ELSE IF w0.committed
    THEN [w |-> w0, e |-> e0, n |-> 0, err |-> AlreadyCommitted]
    ELSE IF w0.cancelled
    THEN [w |-> w0, e |-> e0, n |-> 0, err |-> AlreadyCancelled]
    ELSE IF Repairs(w0)
    THEN writeRepaired(repair(w0, e0, sizeKnown), p)
    ELSE writeLoop(w0, e0, p, 0)

(* Close that completes the upload after its flush *)
writerCloseCompletes(w0, e0) ==
    IF w0.closed
    THEN [w |-> w0, e |-> e0, err |-> AlreadyClosed]
    ELSE [w |-> flushPart([w0 EXCEPT !.closed = TRUE], e0).w,
          e |-> CompleteMultipartUpload(
                    flushPart([w0 EXCEPT !.closed = TRUE], e0).e, w0.key, w0.uploadID,
                    flushPart([w0 EXCEPT !.closed = TRUE], e0).w.parts).e,
          err |-> flushPart([w0 EXCEPT !.closed = TRUE], e0).err]

writerClose(w0, e0) ==
    IF w0.closed
    THEN [w |-> w0, e |-> e0, err |-> AlreadyClosed]
    ELSE flushPart([w0 EXCEPT !.closed = TRUE], e0)

(* The end of Cancel that returns nil whatever AbortMultipartUpload returned *)
cancelAbortedReturnsNil(w0, a) ==
    [w |-> [w0 EXCEPT !.cancelled = TRUE], e |-> a.e, err |-> NoErr]

(* Cancel, cos.go 615-617: a is what AbortMultipartUpload returned *)
cancelAborted(w0, a) ==
    [w |-> [w0 EXCEPT !.cancelled = TRUE], e |-> a.e, err |-> a.err]

(* Cancel that does not look at the committed flag *)
writerCancelNoCommittedCheck(w0, e0) ==
    IF w0.closed
    THEN [w |-> w0, e |-> e0, err |-> AlreadyClosed]
    ELSE cancelAborted(w0, AbortMultipartUpload(e0, w0.key, w0.uploadID))

(* Cancel that does not look at the closed flag *)
writerCancelNoClosedCheck(w0, e0) ==
    IF w0.committed
    THEN [w |-> w0, e |-> e0, err |-> AlreadyCommitted]
    ELSE cancelAborted(w0, AbortMultipartUpload(e0, w0.key, w0.uploadID))

writerCancel(w0, e0) ==
    IF w0.closed
    THEN [w |-> w0, e |-> e0, err |-> AlreadyClosed]
    ELSE IF w0.committed
    THEN [w |-> w0, e |-> e0, err |-> AlreadyCommitted]
    ELSE cancelAborted(w0, AbortMultipartUpload(e0, w0.key, w0.uploadID))

(* The end of Commit that returns what AbortMultipartUpload returned *)
commitCompletedReturnsAbort(w1, c) ==
    IF c.err # NoErr
    THEN [w |-> w1, e |-> AbortMultipartUpload(c.e, w1.key, w1.uploadID).e,
          err |-> AbortMultipartUpload(c.e, w1.key, w1.uploadID).err]
    ELSE [w |-> w1, e |-> c.e, err |-> NoErr]

(* Commit, cos.go 636-641: c is what CompleteMultipartUpload returned *)
commitCompleted(w1, c) ==
    IF c.err # NoErr
    THEN [w |-> w1, e |-> AbortMultipartUpload(c.e, w1.key, w1.uploadID).e,
          err |-> c.err]
    ELSE [w |-> w1, e |-> c.e, err |-> NoErr]

(* Commit, cos.go 628-636: f is what flushPart returned *)
commitFlushed(f) ==
    IF f.err # NoErr
    THEN f
    ELSE commitCompleted([f.w EXCEPT !.committed = TRUE],
                         CompleteMultipartUpload(f.e, f.w.key, f.w.uploadID,
                                                 f.w.parts))

(* Commit that does not look at the closed flag *)
writerCommitNoClosedCheck(w0, e0) ==
    IF w0.committed
    THEN [w |-> w0, e |-> e0, err |-> AlreadyCommitted]
    ELSE IF w0.cancelled
    THEN [w |-> w0, e |-> e0, err |-> AlreadyCancelled]
    ELSE commitFlushed(flushPart(w0, e0))

(* Commit that does not look at the cancelled flag *)
writerCommitNoCancelledCheck(w0, e0) ==
    IF w0.closed
    THEN [w |-> w0, e |-> e0, err |-> AlreadyClosed]
    ELSE IF w0.committed
    THEN [w |-> w0, e |-> e0, err |-> AlreadyCommitted]
    ELSE commitFlushed(flushPart(w0, e0))

writerCommit(w0, e0) ==
    IF w0.closed
    THEN [w |-> w0, e |-> e0, err |-> AlreadyClosed]
    ELSE IF w0.committed
    THEN [w |-> w0, e |-> e0, err |-> AlreadyCommitted]
    ELSE IF w0.cancelled
    THEN [w |-> w0, e |-> e0, err |-> AlreadyCancelled]
    ELSE commitFlushed(flushPart(w0, e0))

(* driver.Writer (cos.go 237-274).                                          *)
(* 240-245: m is what InitiateMultipartUpload returned                      *)
writerInitiated(key, m) ==
    IF m.err # NoErr
    THEN [w |-> NoWriter, e |-> m.e, err |-> m.err]
    ELSE [w |-> newWriter(key, m.val, <<>>), e |-> m.e, err |-> NoErr]

(* 260-271: l is what ListParts returned *)
writerListed(key, uploadID, l) ==
    IF l.err # NoErr
    THEN [w |-> NoWriter, e |-> l.e, err |-> l.err]
    ELSE [w |-> newWriter(key, uploadID, l.val), e |-> l.e, err |-> NoErr]

(* The choice of the upload without the test of its key: the first listed   *)
FirstUploadAnyKey(v, key, pick) ==
    IF v.val = {} THEN 0
    ELSE IF pick \in v.val THEN pick
    ELSE CHOOSE id \in v.val : \A other \in v.val : id <= other

(* 255-259: the first listed upload of the key; pick is the one the listing *)
(* puts first                                                               *)
FirstUpload(v, key, pick) ==
    LET match == {id \in v.val : v.e.uploads[id].key = key}
    IN  IF match = {} THEN 0
        ELSE IF pick \in match THEN pick
        ELSE CHOOSE id \in match : TRUE

writerResumed(key, uploadID, e1) ==
    IF uploadID = 0
    THEN [w |-> NoWriter, e |-> e1, err |-> PathNotFound]
    ELSE writerListed(key, uploadID, ListParts(e1, key, uploadID))

(* 251-273: v is what ListMultipartUploads returned *)
writerUploads(key, v, pick) ==
    IF v.err # NoErr
    THEN [w |-> NoWriter, e |-> v.e, err |-> v.err]
    ELSE writerResumed(key, FirstUpload(v, key, pick), v.e)

driverWriter(e0, path, append, pick) ==
    IF ~append
    THEN writerInitiated(cosPath(path), InitiateMultipartUpload(e0, cosPath(path)))
    ELSE writerUploads(cosPath(path), ListMultipartUploads(e0, cosPath(path)), pick)


-----------------------------------------------------------------------------
(* Driver operations on whole objects *)

(* driver.GetContent returns the store's error as it is *)
GetContent(e0, path) == ObjectGet(e0, cosPath(path))

PutContent(e0, path, content) == ObjectPut(e0, cosPath(path), content)

(* Stat that takes the listed key for the path itself *)
statListedNoKeyTest(l, path) ==
    IF l.err # NoErr
    THEN [e |-> l.e, err |-> l.err, val |-> [IsDir |-> TRUE, Size |-> 0]]
    ELSE IF Len(l.val.Contents) = 1
    THEN [e |-> l.e, err |-> NoErr,
          val |-> [IsDir |-> FALSE, Size |-> l.val.Contents[1].Size]]
    ELSE IF Len(l.val.CommonPrefixes) = 1
    THEN [e |-> l.e, err |-> NoErr, val |-> [IsDir |-> TRUE, Size |-> 0]]
    ELSE [e |-> l.e, err |-> PathNotFound, val |-> [IsDir |-> TRUE, Size |-> 0]]

(* driver.Stat, cos.go 350-377: l is the listing of the prefix limited to   *)
(* one key                                                                  *)
statListed(l, path) ==
    IF l.err # NoErr
    THEN [e |-> l.e, err |-> l.err, val |-> [IsDir |-> TRUE, Size |-> 0]]
    ELSE IF Len(l.val.Contents) = 1
    THEN IF l.val.Contents[1].Key # cosPath(path)
         THEN [e |-> l.e, err |-> NoErr, val |-> [IsDir |-> TRUE, Size |-> 0]]
         ELSE [e |-> l.e, err |-> NoErr,
               val |-> [IsDir |-> FALSE, Size |-> l.val.Contents[1].Size]]
    ELSE IF Len(l.val.CommonPrefixes) = 1
    THEN [e |-> l.e, err |-> NoErr, val |-> [IsDir |-> TRUE, Size |-> 0]]
    ELSE [e |-> l.e, err |-> PathNotFound, val |-> [IsDir |-> TRUE, Size |-> 0]]

Stat(e0, path) == statListed(BucketGet(e0, cosPath(path), 1), path)

(* The part-copy tasks of copy (cos.go 720-743), in the order of their part *)
(* numbers: task i copies bytes firstByte..lastByte into part i + 1 and     *)
(* writes slot i + 1 of parts.  errs collects what the tasks send.          *)
RECURSIVE partCopies(_, _, _, _, _, _, _, _)
RECURSIVE partCopied(_, _, _, _, _, _, _, _)

(* 734-740: u is what UploadPartCopy returned to task i *)
partCopied(u, sourcePath, destPath, uploadID, size, i, parts, errs) ==
    partCopies(u.e, sourcePath, destPath, uploadID, size, i + 1,
               IF u.err = NoErr
               THEN [parts EXCEPT ![i + 1] = [PartNumber |-> i + 1, ETag |-> u.val.ETag]]
               ELSE parts,
               Append(errs, u.err))

partCopies(e0, sourcePath, destPath, uploadID, size, i, parts, errs) ==
    IF i >= Len(parts)
    THEN [e |-> e0, parts |-> parts, errs |-> errs]
    ELSE LET firstByte == i * multipartCopyChunkSize
             lastByte == IF firstByte + multipartCopyChunkSize - 1 >= size
                         THEN size - 1
                         ELSE firstByte + multipartCopyChunkSize - 1
         IN  partCopied(UploadPartCopy(e0, cosPath(destPath), cosPath(sourcePath),
                                       uploadID, i + 1, firstByte, lastByte, TRUE),
                        sourcePath, destPath, uploadID, size, i, parts, errs)

FirstError(errs) ==
    IF \A i \in 1..Len(errs) : errs[i] = NoErr THEN NoErr
    ELSE errs[CHOOSE i \in 1..Len(errs) :
                 errs[i] # NoErr /\ \A j \in 1..(i - 1) : errs[j] = NoErr]

(* driver.copy.  Its part-copy tasks run concurrently; here they run in     *)
(* part order and the error copy returns is the first one in that order.    *)
(* 693-697 and 753-757: c is what Copy or CompleteMultipartUpload returned  *)
copyDone(c) == [e |-> c.e, err |-> c.err]

(* 745-757: t is what the part-copy tasks left *)
copyCollected(t, uploadID, destPath) ==
    IF FirstError(t.errs) # NoErr
    THEN [e |-> AbortMultipartUpload(t.e, cosPath(destPath), uploadID).e,
          err |-> FirstError(t.errs)]
    ELSE copyDone(CompleteMultipartUpload(t.e, cosPath(destPath), uploadID, t.parts))

numParts(size) == (size + multipartCopyChunkSize - 1) \div multipartCopyChunkSize

(* 710-751: m is what InitiateMultipartUpload returned *)
copyInitiated(m, size, sourcePath, destPath) ==
    IF m.err # NoErr
    THEN [e |-> m.e, err |-> m.err]
    ELSE copyCollected(
             partCopies(m.e, sourcePath, destPath, m.val, size, 0,
                        [i \in 1..numParts(size) |-> [PartNumber |-> 0, ETag |-> <<>>]],
                        <<>>),
             m.val, destPath)

(* The choice of copy with a threshold test that is < instead of <= *)
copyStattedStrictThreshold(s, sourcePath, destPath) ==
    IF s.err # NoErr
    THEN [e |-> s.e, err |-> s.err]
    ELSE IF s.val.Size < multipartCopyThresholdSize
    THEN copyDone(ObjectCopy(s.e, cosPath(destPath), sourcePath))
    ELSE copyInitiated(InitiateMultipartUpload(s.e, cosPath(destPath)), s.val.Size,
                       sourcePath, destPath)

(* 687-712: s is what Stat returned *)
copyStatted(s, sourcePath, destPath) ==
    IF s.err # NoErr
    THEN [e |-> s.e, err |-> s.err]
    ELSE IF s.val.Size <= multipartCopyThresholdSize
    THEN copyDone(ObjectCopy(s.e, cosPath(destPath), sourcePath))
    ELSE copyInitiated(InitiateMultipartUpload(s.e, cosPath(destPath)), s.val.Size,
                       sourcePath, destPath)

copy(e0, sourcePath, destPath) ==
    copyStatted(Stat(e0, sourcePath), sourcePath, destPath)

(* driver.Move, cos.go 386-387: d is what Delete returned *)
moveDeleted(d, sub) == [e |-> d.e, err |-> d.err, sub |-> sub]

(* The end of Move that deletes the source whatever copy returned *)
moveCopiedAlwaysDeletes(c, sourcePath) ==
    moveDeleted(ObjectDelete(c.e, cosPath(sourcePath)), c.err)

(* driver.Move, cos.go 383-387: c is what copy returned, and sub of the     *)
(* result records it                                                        *)
moveCopied(c, sourcePath) ==
    IF c.err # NoErr
    THEN [e |-> c.e, err |-> NoErr, sub |-> c.err]
    ELSE moveDeleted(ObjectDelete(c.e, cosPath(sourcePath)), NoErr)

driverMove(e0, sourcePath, destPath) ==
    moveCopied(copy(e0, cosPath(sourcePath), cosPath(destPath)), sourcePath)

(* strings.Replace(s, old, new, 1): the first occurrence of old in s, which *)
(* for an empty old is the start of s, becomes new                          *)
RECURSIVE FirstOccurrence(_, _, _)
FirstOccurrence(s, old, i) ==
    IF i + Len(old) - 1 > Len(s) THEN 0
    ELSE IF SubSeq(s, i, i + Len(old) - 1) = old THEN i
    ELSE FirstOccurrence(s, old, i + 1)

Replace1(s, old, new) ==
    IF FirstOccurrence(s, old, 1) = 0 THEN s
    ELSE SubSeq(s, 1, FirstOccurrence(s, old, 1) - 1) \o new
             \o SubSeq(s, FirstOccurrence(s, old, 1) + Len(old), Len(s))

RootPath == <<"/">>

(* driver.List (cos.go 276-342).  277-280: the listed path ends with "/" *)
listPath(opath) ==
    IF opath # RootPath /\ opath[Len(opath)] # "/" THEN opath \o <<"/">> ELSE opath

(* 285-288 *)
listPrefix == IF cosPath(<<>>) = <<>> THEN <<"/">> ELSE <<>>

(* The files of a page left as the keys the store listed *)
listFilesNoRewrite(contents) == [i \in 1..Len(contents) |-> contents[i].Key]

(* 305-307 and 309-311: the entries of one page as logical paths *)
listFiles(contents) ==
    [i \in 1..Len(contents) |-> Replace1(contents[i].Key, cosPath(<<>>), listPrefix)]

listDirectories(commonPrefixes) ==
    [i \in 1..Len(commonPrefixes) |->
        Replace1(SubSeq(commonPrefixes[i], 1, Len(commonPrefixes[i]) - 1),
                 cosPath(<<>>), listPrefix)]

(* The files of List with the listed prefix's own key left in *)
listDropMarkerKeepsIt(files, opath) == files

(* 329-331: the first file is dropped when it is the listed prefix itself *)
listDropMarker(files, opath) ==
    IF Len(files) > 0
       /\ files[1] = Replace1(cosPath(listPath(opath)), cosPath(<<>>), listPrefix)
    THEN Tail(files)
    ELSE files

(* The end of List that returns an empty listing as it is *)
listDoneNeverNotFound(e1, opath, files, directories) ==
    [e |-> e1, err |-> NoErr, val |-> files \o directories]

(* 328-341 *)
listDone(e1, opath, files, directories) ==
    IF opath # RootPath /\ Len(files) = 0 /\ Len(directories) = 0
    THEN [e |-> e1, err |-> PathNotFound, val |-> <<>>]
    ELSE [e |-> e1, err |-> NoErr, val |-> files \o directories]

(* 297-326: l is what Bucket.Get returned for the current page *)
RECURSIVE listPages(_, _, _, _)
listPages(l, opath, files, directories) ==
    IF l.err # NoErr
    THEN [e |-> l.e, err |-> l.err, val |-> <<>>]
    ELSE IF l.val.IsTruncated
    THEN listPages(BucketGetDelimited(l.e, cosPath(listPath(opath)), l.val.NextMarker,
                                      listMax),
                   opath,
                   files \o listFiles(l.val.Contents),
                   directories \o listDirectories(l.val.CommonPrefixes))
    ELSE listDone(l.e, opath,
                  listDropMarker(files \o listFiles(l.val.Contents), opath),
                  directories \o listDirectories(l.val.CommonPrefixes))

driverList(e0, opath) ==
    listPages(BucketGetDelimited(e0, cosPath(listPath(opath)), <<>>, listMax),
              opath, <<>>, <<>>)

(* driver.Delete (cos.go 390-443).  406-411: the index of the first listed  *)
(* key that is longer than the prefix and does not go on with "/"           *)
(* The count of Delete without the boundary test: every listed key *)
numOssObjectsNoBoundary(contents, prefix, index) == Len(contents)

RECURSIVE numOssObjects(_, _, _)
numOssObjects(contents, prefix, index) ==
    IF index >= Len(contents) THEN Len(contents)
    ELSE IF Len(contents[index + 1].Key) > Len(prefix)
            /\ contents[index + 1].Key[Len(prefix) + 1] # "/"
    THEN index
    ELSE numOssObjects(contents, prefix, index + 1)

(* 412: the keys before that index overwrite the slots of cosObjects *)
deleteKeep(cosObjects, contents, prefix) ==
    [i \in 1..Len(cosObjects) |->
        IF i <= numOssObjects(contents, prefix, 0) THEN contents[i].Key
        ELSE cosObjects[i]]

RECURSIVE deletePage(_, _, _)
RECURSIVE deleteMultiDone(_, _, _, _)
RECURSIVE deleteRefetched(_, _, _)

(* 438-441: l is what the second Bucket.Get returned *)
deleteRefetched(l, path, cosObjects) ==
    IF l.err # NoErr
    THEN [e |-> l.e, err |-> l.err]
    ELSE deletePage(l, path, cosObjects)

(* 421-437: dm is what DeleteMulti returned *)
deleteMultiDone(dm, l, path, cosObjects) ==
    IF dm.err # NoErr
    THEN [e |-> dm.e, err |-> NoErr]
    ELSE IF numOssObjects(l.val.Contents, cosPath(path), 0) < Len(l.val.Contents)
    THEN [e |-> dm.e, err |-> NoErr]
    ELSE deleteRefetched(BucketGet(dm.e, cosPath(path), listMax), path, cosObjects)

(* 404-420: one round of the loop on the page l *)
deletePage(l, path, cosObjects) ==
    IF Len(l.val.Contents) = 0
    THEN [e |-> l.e, err |-> NoErr]
    ELSE deleteMultiDone(
             DeleteMulti(l.e,
                         SubSeq(deleteKeep(cosObjects, l.val.Contents, cosPath(path)), 1,
                                numOssObjects(l.val.Contents, cosPath(path), 0))),
             l, path, deleteKeep(cosObjects, l.val.Contents, cosPath(path)))

(* 397-402: l is what the first Bucket.Get returned *)
deleteListed(l, path) ==
    IF l.err # NoErr \/ Len(l.val.Contents) = 0
    THEN [e |-> l.e, err |-> PathNotFound]
    ELSE deletePage(l, path, [i \in 1..listMax |-> <<>>])

driverDelete(e0, path) ==
    deleteListed(BucketGet(e0, cosPath(path), listMax), path)

-----------------------------------------------------------------------------
(* The writer's life: driver.Writer, then Write / Close / Commit / Cancel   *)
(* in any order, each with any argument and any store calls failing.  The   *)
(* code never inspects the bytes it is given, so the byte written at offset *)
(* i of the stream is i + 1: a lost, repeated or misplaced byte shows in   *)
(* the stored object.                                                       *)

(* What a call returned: err, and n (Write's count); args records the      *)
(* call's arguments (of Write, the length of p) and sub the error of Move's *)
(* copy step.                                                               *)
RetOf(op, err, n, args, sub) ==
    [op |-> op, err |-> err, n |-> n, args |-> args, sub |-> sub, val |-> <<>>]

(* What a call on the bucket returned: err and the value *)
RetVal(op, err, args, val) ==
    [op |-> op, err |-> err, n |-> 0, args |-> args, sub |-> NoErr, val |-> val]

Ret(op, err, n) == RetOf(op, err, n, <<>>, NoErr)

WriterKey == cosPath(WriterPath)

(* FromParameters accepts a chunksize only if it is >= minChunkSize, and    *)
(* defaults it to defaultChunkSize                                          *)
ChunkSizes == minChunkSize..MaxChunkSize

Bytes(from, len) == [i \in 1..len |-> from + i]

(* The sets of call positions the transport may fail, an operation that     *)
(* issues n calls when none fails                                           *)
FailSets(n) ==
    {S \in SUBSET (1..(n + 1)) : Cardinality(S) <= MaxFailures - failures}

Injections(e) ==
    Cardinality({i \in 1..Len(e.calls) : i \in e.fails})

InitWriter ==
    /\ ChunkSize \in ChunkSizes
    /\ objects \in {<<>>, (WriterKey :> <<9>>)}
    /\ uploads = <<>>
    /\ w = NoWriter
    /\ wid = 0
    /\ written = <<>>
    /\ resumed = FALSE
    /\ succeeded = {}
    /\ clean = TRUE
    /\ failures = 0
    /\ ret = Ret("none", NoErr, 0)
    /\ calls = <<>>
    /\ cp = NoCopy

Store(e) ==
    /\ objects' = e.objects
    /\ uploads' = e.uploads
    /\ calls' = e.calls
    /\ failures' = failures + Injections(e)

InFlight(key) ==
    {id \in 1..Len(uploads) : uploads[id].status = "open" /\ uploads[id].key = key}

Finished(w0) == ~w0.open \/ w0.closed \/ w0.committed \/ w0.cancelled

(* One writer at a time owns the upload session: the caller opens the next  *)
(* writer once it is done with the one it holds.                            *)
OpenWriter(limit) ==
    /\ wid < limit
    /\ Finished(w)
    /\ \E append \in BOOLEAN :
       \E pick \in (IF append /\ InFlight(WriterKey) # {}
                    THEN InFlight(WriterKey) ELSE {0}) :
       \E fails \in FailSets(
              Len(driverWriter(Env({}), WriterPath, append, pick).e.calls)) :
       \E r \in {driverWriter(Env(fails), WriterPath, append, pick)} :
            /\ Len(r.e.uploads) <= MaxUploads
            /\ Store(r.e)
            /\ ret' = Ret("Writer", r.err, 0)
            /\ IF r.err = NoErr
               THEN /\ w' = r.w
                    /\ wid' = wid + 1
                    /\ written' = <<>>
                    /\ resumed' = append
                    /\ succeeded' = {}
                    /\ clean' = TRUE
               ELSE UNCHANGED <<w, wid, written, resumed, succeeded, clean>>
            /\ UNCHANGED <<ChunkSize, cp>>

Write ==
    /\ w.open
    /\ \E len \in 0..MaxWriteLen :
       \E sizeKnown \in (IF Repairs(w) /\ w.size >= minChunkSize
                         THEN BOOLEAN ELSE {TRUE}) :
       \E fails \in FailSets(
              Len(writerWrite(w, Env({}), Bytes(w.size, len), sizeKnown).e.calls)) :
       \E p \in {Bytes(w.size, len)} :
       \E r \in {writerWrite(w, Env(fails), p, sizeKnown)} :
            /\ w.size + len <= MaxSize
            /\ Len(r.e.uploads) <= MaxUploads
            /\ Store(r.e)
            /\ ret' = RetOf("Write", r.err, r.n, <<len>>, NoErr)
            /\ w' = IF r.err = Diverges THEN NoWriter ELSE r.w
            /\ written' = written \o SubSeq(p, 1, r.n)
            /\ clean' = (clean /\ r.e.clean)
            /\ UNCHANGED <<wid, resumed, succeeded, ChunkSize, cp>>

Close ==
    /\ w.open
    /\ \E fails \in FailSets(Len(writerClose(w, Env({})).e.calls)) :
       \E r \in {writerClose(w, Env(fails))} :
            /\ Store(r.e)
            /\ ret' = Ret("Close", r.err, 0)
            /\ w' = r.w
            /\ clean' = (clean /\ r.e.clean)
            /\ UNCHANGED <<wid, written, resumed, succeeded, ChunkSize, cp>>

Commit ==
    /\ w.open
    /\ \E fails \in FailSets(Len(writerCommit(w, Env({})).e.calls)) :
       \E r \in {writerCommit(w, Env(fails))} :
            /\ Store(r.e)
            /\ ret' = Ret("Commit", r.err, 0)
            /\ w' = r.w
            /\ succeeded' = IF r.err = NoErr THEN succeeded \cup {"Commit"} ELSE succeeded
            /\ clean' = (clean /\ r.e.clean)
            /\ UNCHANGED <<wid, written, resumed, ChunkSize, cp>>

Cancel ==
    /\ w.open
    /\ \E fails \in FailSets(Len(writerCancel(w, Env({})).e.calls)) :
       \E r \in {writerCancel(w, Env(fails))} :
            /\ Store(r.e)
            /\ ret' = Ret("Cancel", r.err, 0)
            /\ w' = r.w
            /\ succeeded' = IF r.err = NoErr THEN succeeded \cup {"Cancel"} ELSE succeeded
            /\ clean' = (clean /\ r.e.clean)
            /\ UNCHANGED <<wid, written, resumed, ChunkSize, cp>>

(* One writer, opened once, and every sequence of calls on it *)
Writer == OpenWriter(1)

NextWriter == Writer \/ Write \/ Close \/ Commit \/ Cancel

SpecWriter == InitWriter /\ [][NextWriter]_vars

(* Successive writers on one key: each is used until its first Close,       *)
(* Commit or Cancel, then the next one is opened (append or not).           *)
Reopen == OpenWriter(MaxWriters)
SessionWrite == ~Finished(w) /\ Write
SessionClose == ~Finished(w) /\ Close
SessionCommit == ~Finished(w) /\ Commit
SessionCancel == ~Finished(w) /\ Cancel

NextSessions ==
    Reopen \/ SessionWrite \/ SessionClose \/ SessionCommit \/ SessionCancel

InitSessions ==
    /\ ChunkSize \in ChunkSizes
    /\ objects = <<>>
    /\ uploads = <<>>
    /\ w = NoWriter
    /\ wid = 0
    /\ written = <<>>
    /\ resumed = FALSE
    /\ succeeded = {}
    /\ clean = TRUE
    /\ failures = MaxFailures
    /\ ret = Ret("none", NoErr, 0)
    /\ calls = <<>>
    /\ cp = NoCopy

SpecSessions == InitSessions /\ [][NextSessions]_vars

(* Successive writers on one key with the transport failing store calls:    *)
(* the first writer starts an upload, and a writer that was closed or left  *)
(* by a failed call is followed by one that resumes its upload.             *)
Recover ==
    /\ wid >= 1
    /\ OpenWriter(MaxWriters)
    /\ ret'.err = NoErr => resumed'

NextRecovery ==
    Writer \/ Recover \/ SessionWrite \/ SessionClose \/ SessionCommit \/ SessionCancel

InitRecovery ==
    /\ ChunkSize \in ChunkSizes
    /\ objects = <<>>
    /\ uploads = <<>>
    /\ w = NoWriter
    /\ wid = 0
    /\ written = <<>>
    /\ resumed = FALSE
    /\ succeeded = {}
    /\ clean = TRUE
    /\ failures = 0
    /\ ret = Ret("none", NoErr, 0)
    /\ calls = <<>>
    /\ cp = NoCopy

SpecRecovery == InitRecovery /\ [][NextRecovery]_vars


-----------------------------------------------------------------------------
(* Writers on two paths, the key of one a prefix of the other's: each is    *)
(* opened with append or without, used until its first Close, Commit or     *)
(* Cancel, then the next one is opened.  The transport may fail a call of   *)
(* Writer; the calls of the writers' methods succeed.  An upload of the     *)
(* longer key may be in flight from the start, begun by an earlier process. *)

ResumePaths == {<<"/", "a">>, <<"/", "a", "b">>}

InitResume ==
    /\ ChunkSize = defaultChunkSize
    /\ objects = <<>>
    /\ uploads \in {<<>>, <<[key |-> <<"a", "b">>, parts |-> <<>>, status |-> "open"]>>}
    /\ w = NoWriter
    /\ wid = 0
    /\ written = <<>>
    /\ resumed = FALSE
    /\ succeeded = {}
    /\ clean = TRUE
    /\ failures = MaxFailures
    /\ ret = Ret("none", NoErr, 0)
    /\ calls = <<>>
    /\ cp = NoCopy

(* The transport fails at most one of the calls of Writer *)
OneFailure(n) == {{}} \cup {{i} : i \in 1..n}

WriterAt ==
    /\ wid < MaxWriters
    /\ Finished(w)
    /\ \E path \in ResumePaths, append \in BOOLEAN :
       \E pick \in (IF append /\ InFlight(cosPath(path)) # {}
                    THEN InFlight(cosPath(path)) ELSE {0}) :
       \E fails \in OneFailure(Len(driverWriter(Env({}), path, append, pick).e.calls)) :
       \E r \in {driverWriter(Env(fails), path, append, pick)} :
            /\ Len(r.e.uploads) <= MaxUploads
            /\ objects' = r.e.objects
            /\ uploads' = r.e.uploads
            /\ calls' = r.e.calls
            /\ ret' = RetOf("Writer", r.err, 0, <<path, append>>, NoErr)
            /\ IF r.err = NoErr
               THEN /\ w' = r.w
                    /\ wid' = wid + 1
                    /\ written' = <<>>
                    /\ resumed' = append
                    /\ succeeded' = {}
                    /\ clean' = TRUE
               ELSE UNCHANGED <<w, wid, written, resumed, succeeded, clean>>
            /\ UNCHANGED <<ChunkSize, failures, cp>>

NextResume ==
    WriterAt \/ SessionWrite \/ SessionClose \/ SessionCommit \/ SessionCancel

SpecResume == InitResume /\ [][NextResume]_vars

-----------------------------------------------------------------------------
(* Move between two paths of a bucket that holds a source object of any     *)
(* size up to MaxObjectSize (or none) and possibly an older object at the   *)
(* destination.                                                             *)

SourceKey == cosPath(SourcePath)
DestKey == cosPath(DestPath)

InitMove ==
    /\ ChunkSize = defaultChunkSize
    /\ \E n \in 0..MaxObjectSize, src \in BOOLEAN, dst \in BOOLEAN :
          objects = [k \in ((IF src THEN {SourceKey} ELSE {}) \cup
                            (IF dst THEN {DestKey} ELSE {})) |->
                        IF k = SourceKey THEN Bytes(0, n) ELSE <<9>>]
    /\ uploads = <<>>
    /\ w = NoWriter
    /\ wid = 0
    /\ written = <<>>
    /\ resumed = FALSE
    /\ succeeded = {}
    /\ clean = TRUE
    /\ failures = 0
    /\ ret = Ret("none", NoErr, 0)
    /\ calls = <<>>
    /\ cp = NoCopy

Move ==
    \E sourcePath \in {SourcePath, DestPath} :
    \E destPath \in {SourcePath, DestPath} \ {sourcePath} :
    \E fails \in FailSets(Len(driverMove(Env({}), sourcePath, destPath).e.calls)) :
    \E r \in {driverMove(Env(fails), sourcePath, destPath)} :
            /\ Len(r.e.uploads) <= MaxUploads
            /\ Store(r.e)
            /\ ret' = RetOf("Move", r.err, 0, <<sourcePath, destPath>>, r.sub)
            /\ clean' = r.e.clean
            /\ UNCHANGED <<w, wid, written, resumed, succeeded, ChunkSize, cp>>

NextMove == Move

SpecMove == InitMove /\ [][NextMove]_vars

-----------------------------------------------------------------------------
(* driver.copy with its part-copy tasks running concurrently (cos.go        *)
(* 685-757).  copy starts one task per part; a task takes a place in the    *)
(* limiter, sends its UploadPartCopy request, writes its slot of parts when *)
(* the response is a success, sends the error (or nil) on errChan and gives *)
(* the place back.  copy receives from errChan: the first error makes it    *)
(* abort the upload and return while the other tasks go on; after numParts  *)
(* nils it completes the upload.  A step is one access to what the tasks    *)
(* share (limiter, store, errChan).                                         *)
(* cp.task[i] is where task i - 1 stands, cp.terr[i] what its request       *)
(* returned, cp.sent everything sent on errChan so far, in order, of which  *)
(* copy has received the first cp.received.                                 *)

(* 718, 722 and 741: the tasks holding a place in the limiter *)
copyHolding(c) ==
    {i \in 1..Len(c.task) : c.task[i] \in {"inflight", "responded", "reported"}}

(* A limiter that always has room *)
limiterAlwaysFree(c) == TRUE

limiterFree(c) == Cardinality(copyHolding(c)) < multipartCopyMaxConcurrency

(* 723-727 *)
partFirstByte(i) == i * multipartCopyChunkSize

(* A last byte that is not cut at the end of the source *)
partLastByteUncut(i, size) == partFirstByte(i) + multipartCopyChunkSize - 1

partLastByte(i, size) ==
    IF partFirstByte(i) + multipartCopyChunkSize - 1 >= size
    THEN size - 1
    ELSE partFirstByte(i) + multipartCopyChunkSize - 1

(* The tasks all writing the first slot *)
taskSlotShared(parts, i, u) ==
    IF u.err = NoErr
    THEN [parts EXCEPT ![1] = [PartNumber |-> i + 1, ETag |-> u.val.ETag]]
    ELSE parts

(* 733-738: u is what UploadPartCopy returned to task i *)
taskSlot(parts, i, u) ==
    IF u.err = NoErr
    THEN [parts EXCEPT ![i + 1] = [PartNumber |-> i + 1, ETag |-> u.val.ETag]]
    ELSE parts

(* The loop of copy going on after an error *)
collectedIgnoresError(c, err) == [c EXCEPT !.received = @ + 1]

(* 745-751: err is what copy received from errChan *)
collected(c, err) ==
    IF err # NoErr
    THEN [c EXCEPT !.main = "abort", !.err = err]
    ELSE [c EXCEPT !.received = @ + 1]

(* 693-697: copy returned without tasks *)
copyReturned(r) == [e |-> r.e, err |-> r.err, c |-> [NoCopy EXCEPT !.main = "done"]]

(* 710-720: m is what InitiateMultipartUpload returned *)
copySpawned(m, size) ==
    IF m.err # NoErr
    THEN copyReturned(m)
    ELSE [e |-> m.e, err |-> NoErr,
          c |-> [main |-> "collect", size |-> size, uploadID |-> m.val,
                 parts |-> [i \in 1..numParts(size) |-> [PartNumber |-> 0, ETag |-> <<>>]],
                 task |-> [i \in 1..numParts(size) |-> "start"],
                 terr |-> [i \in 1..numParts(size) |-> NoErr],
                 sent |-> <<>>, received |-> 0, err |-> NoErr]]

(* 686-712: s is what Stat returned *)
copyBegun(s, sourcePath, destPath) ==
    IF s.err # NoErr
    THEN copyReturned(s)
    ELSE IF s.val.Size <= multipartCopyThresholdSize
    THEN copyReturned(ObjectCopy(s.e, cosPath(destPath), sourcePath))
    ELSE copySpawned(InitiateMultipartUpload(s.e, cosPath(destPath)), s.val.Size)

copyBegin(e0, sourcePath, destPath) ==
    copyBegun(Stat(e0, sourcePath), sourcePath, destPath)

InitCopy ==
    /\ ChunkSize = defaultChunkSize
    /\ \E n \in 0..MaxObjectSize : objects = (SourceKey :> Bytes(0, n))
    /\ uploads = <<>>
    /\ w = NoWriter
    /\ wid = 0
    /\ written = <<>>
    /\ resumed = FALSE
    /\ succeeded = {}
    /\ clean = TRUE
    /\ failures = 0
    /\ ret = Ret("none", NoErr, 0)
    /\ calls = <<>>
    /\ cp = NoCopy

(* The store as a step of the copy leaves it; calls keeps every call of the *)
(* copy, in the order the store served them                                 *)
CopyStore(e) ==
    /\ objects' = e.objects
    /\ uploads' = e.uploads
    /\ calls' = calls \o e.calls
    /\ failures' = failures + Injections(e)
    /\ clean' = (clean /\ e.clean)
    /\ UNCHANGED <<w, wid, written, resumed, succeeded, ChunkSize>>

CopyQuiet ==
    UNCHANGED <<objects, uploads, calls, failures, clean, ret,
                w, wid, written, resumed, succeeded, ChunkSize>>

CopyRet(err) == RetOf("copy", err, 0, <<SourceKey, DestKey>>, NoErr)

CopyBegin ==
    /\ cp.main = "idle"
    /\ \E fails \in FailSets(Len(copyBegin(Env({}), SourceKey, DestKey).e.calls)) :
       \E r \in {copyBegin(Env(fails), SourceKey, DestKey)} :
            /\ CopyStore(r.e)
            /\ cp' = r.c
            /\ ret' = IF r.c.main = "done" THEN CopyRet(r.err) ELSE ret

(* 722: limiter <- struct{}{}, and the request leaves *)
TaskRequest ==
    \E i \in 1..Len(cp.task) :
        /\ cp.task[i] = "start"
        /\ limiterFree(cp)
        /\ cp' = [cp EXCEPT !.task[i] = "inflight"]
        /\ CopyQuiet

(* 728-738: the store serves the request and the task writes its slot *)
TaskResponse ==
    \E i \in 1..Len(cp.task) :
    \E fails \in FailSets(0) :
    \E u \in {UploadPartCopy(Env(fails), cosPath(DestKey), cosPath(SourceKey),
                              cp.uploadID, i, partFirstByte(i - 1),
                              partLastByte(i - 1, cp.size), TRUE)} :
        /\ cp.task[i] = "inflight"
        /\ CopyStore(u.e)
        /\ cp' = [cp EXCEPT !.task[i] = "responded",
                            !.terr[i] = u.err,
                            !.parts = taskSlot(cp.parts, i - 1, u)]
        /\ UNCHANGED ret

(* An errChan without buffer: a send waits for copy to receive *)
errChanUnbuffered(c) == c.main = "collect" /\ Len(c.sent) = c.received

(* 717: errChan has room for numParts errors *)
errChanRoom(c) == Len(c.sent) - c.received < Len(c.task)

(* 740: errChan <- err *)
TaskReport ==
    \E i \in 1..Len(cp.task) :
        /\ cp.task[i] = "responded"
        /\ errChanRoom(cp)
        /\ cp' = [cp EXCEPT !.task[i] = "reported", !.sent = Append(@, cp.terr[i])]
        /\ CopyQuiet

(* 741: <-limiter *)
TaskRelease ==
    \E i \in 1..Len(cp.task) :
        /\ cp.task[i] = "reported"
        /\ cp' = [cp EXCEPT !.task[i] = "done"]
        /\ CopyQuiet

(* 745-746: err := <-errChan *)
CopyReceive ==
    /\ cp.main = "collect"
    /\ cp.received < Len(cp.sent)
    /\ cp' = collected(cp, cp.sent[cp.received + 1])
    /\ CopyQuiet

(* 748-749 *)
CopyAbort ==
    /\ cp.main = "abort"
    /\ \E fails \in FailSets(0) :
       \E a \in {AbortMultipartUpload(Env(fails), cosPath(DestKey), cp.uploadID)} :
            /\ CopyStore(a.e)
            /\ cp' = [cp EXCEPT !.main = "done"]
            /\ ret' = CopyRet(cp.err)

(* 753-757 *)
CopyComplete ==
    /\ cp.main = "collect"
    /\ cp.received = Len(cp.task)
    /\ \E fails \in FailSets(0) :
       \E c \in {CompleteMultipartUpload(Env(fails), cosPath(DestKey), cp.uploadID,
                                         cp.parts)} :
            /\ CopyStore(c.e)
            /\ cp' = [cp EXCEPT !.main = "done"]
            /\ ret' = CopyRet(c.err)

NextCopy ==
    \/ CopyBegin \/ TaskRequest \/ TaskResponse \/ TaskReport \/ TaskRelease
    \/ CopyReceive \/ CopyAbort \/ CopyComplete

SpecCopy == InitCopy /\ [][NextCopy]_vars

(* Every store call returns, and the scheduler runs every goroutine that    *)
(* can take a step                                                          *)
SpecCopyFair ==
    /\ SpecCopy
    /\ WF_vars(CopyBegin) /\ WF_vars(TaskRequest) /\ WF_vars(TaskResponse)
    /\ WF_vars(TaskReport) /\ WF_vars(TaskRelease)
    /\ WF_vars(CopyReceive) /\ WF_vars(CopyAbort) /\ WF_vars(CopyComplete)

-----------------------------------------------------------------------------
(* The bucket as the metadata operations see it: PutContent, GetContent,    *)
(* Stat, List and Delete on paths whose keys share the prefix "a", in any   *)
(* order, any store call failing.  The key "a/" is a directory marker put   *)
(* there by another client of the bucket.                                   *)

FilePaths ==
    {<<"/", "a">>, <<"/", "a", "b">>, <<"/", "a", "-", "b">>, <<"/", "a", "/", "x">>}

AllPaths == FilePaths \cup {RootPath}

MarkerKey == <<"a", "/">>

InitStore ==
    /\ ChunkSize = defaultChunkSize
    /\ objects \in {<<>>, (MarkerKey :> <<>>)}
    /\ uploads = <<>>
    /\ w = NoWriter
    /\ wid = 0
    /\ written = <<>>
    /\ resumed = FALSE
    /\ succeeded = {}
    /\ clean = TRUE
    /\ failures = 0
    /\ ret = Ret("none", NoErr, 0)
    /\ calls = <<>>
    /\ cp = NoCopy

Unwritten == UNCHANGED <<w, wid, written, resumed, succeeded, ChunkSize, cp>>

CallPutContent ==
    \E path \in FilePaths, len \in {0, MaxContentLen} :
    \E fails \in FailSets(Len(PutContent(Env({}), path, Bytes(0, len)).e.calls)) :
    \E r \in {PutContent(Env(fails), path, Bytes(0, len))} :
        /\ Store(r.e)
        /\ ret' = RetVal("PutContent", r.err, <<path>>, Bytes(0, len))
        /\ clean' = r.e.clean
        /\ Unwritten

CallGetContent ==
    \E path \in FilePaths :
    \E fails \in FailSets(Len(GetContent(Env({}), path).e.calls)) :
    \E r \in {GetContent(Env(fails), path)} :
        /\ Store(r.e)
        /\ ret' = RetVal("GetContent", r.err, <<path>>, r.val)
        /\ clean' = r.e.clean
        /\ Unwritten

CallStat ==
    \E path \in AllPaths :
    \E fails \in FailSets(Len(Stat(Env({}), path).e.calls)) :
    \E r \in {Stat(Env(fails), path)} :
        /\ Store(r.e)
        /\ ret' = RetVal("Stat", r.err, <<path>>, r.val)
        /\ clean' = r.e.clean
        /\ Unwritten

CallList ==
    \E opath \in AllPaths :
    \E fails \in FailSets(Len(driverList(Env({}), opath).e.calls)) :
    \E r \in {driverList(Env(fails), opath)} :
        /\ Store(r.e)
        /\ ret' = RetVal("List", r.err, <<opath>>, r.val)
        /\ clean' = r.e.clean
        /\ Unwritten

CallDelete ==
    \E path \in AllPaths :
    \E fails \in FailSets(Len(driverDelete(Env({}), path).e.calls)) :
    \E r \in {driverDelete(Env(fails), path)} :
        /\ Store(r.e)
        /\ ret' = RetVal("Delete", r.err, <<path>>, <<>>)
        /\ clean' = r.e.clean
        /\ Unwritten

NextStore == CallPutContent \/ CallGetContent \/ CallStat \/ CallList \/ CallDelete

SpecStore == InitStore /\ [][NextStore]_vars

-----------------------------------------------------------------------------
(* Properties of the writer *)

Already == {AlreadyClosed, AlreadyCommitted, AlreadyCancelled}

WriterOps == {"Write", "Close", "Commit", "Cancel"}

StoreUnchanged == objects' = objects /\ uploads' = uploads

(* C1: round trip.  When Commit returns nil on a writer opened with        *)
(* append = false, and no store call of that writer has failed, GetContent  *)
(* of the path returns exactly the bytes its Write calls accepted, in       *)
(* order.                                                                   *)
C1_RoundTrip ==
    (ret.op = "Commit" /\ ret.err = NoErr /\ ~resumed /\ clean)
        => LET g == GetContent(Env({}), WriterPath)
           IN  g.err = NoErr /\ g.val = written

(* A commit after a flush inside Write and the repair that follows it *)
C1_Witness ==
    /\ ret.op = "Commit" /\ ret.err = NoErr /\ ~resumed /\ clean
    /\ Len(written) > 2 * ChunkSize
    /\ Len(uploads) >= 2

(* C2 as stated: a call on a writer with any of the three flags set fails   *)
(* with an "already ..." error and issues no store call.                    *)
C2_NoCallAfterTerminal ==
    [][(ret'.op \in WriterOps /\ w.open /\ (w.closed \/ w.committed \/ w.cancelled))
          => (ret'.err \in Already /\ calls' = <<>>)]_vars

(* C2 amended: Write and Commit fail so when any of the three flags is set; *)
(* Cancel when closed or committed is set; Close when closed is set.        *)
C2_Guards ==
    [][(w.open /\ ret'.op \in WriterOps /\
          \/ (ret'.op \in {"Write", "Commit"} /\ (w.closed \/ w.committed \/ w.cancelled))
          \/ (ret'.op = "Cancel" /\ (w.closed \/ w.committed))
          \/ (ret'.op = "Close" /\ w.closed))
          => (ret'.err \in Already /\ calls' = <<>> /\ StoreUnchanged)]_vars

(* Each of the four calls has been refused on a finished writer *)
C2_Witness ==
    /\ w.open /\ w.closed /\ w.committed
    /\ ret.op = "Commit" /\ ret.err = AlreadyClosed

(* C3: committed and cancelled are never both set, and Commit and Cancel    *)
(* never both return nil on one writer.                                     *)
C3_CommitXorCancel ==
    /\ ~(w.committed /\ w.cancelled)
    /\ ~({"Commit", "Cancel"} \subseteq succeeded)

(* Cancel refused after a Commit that returned nil *)
C3_Witness ==
    /\ "Commit" \in succeeded
    /\ ret.op = "Cancel" /\ ret.err = AlreadyCommitted

(* C4 as stated: at most one of closed, committed, cancelled is set *)
C4_MutuallyExclusive ==
    /\ ~(w.closed /\ w.committed)
    /\ ~(w.closed /\ w.cancelled)
    /\ ~(w.committed /\ w.cancelled)

(* C4 amended: committed and cancelled exclude each other, and a closed     *)
(* writer never becomes committed or cancelled; closed itself may be set on *)
(* a writer that is already committed or cancelled.                         *)
C4_TerminalFlags ==
    /\ [](~(w.committed /\ w.cancelled))
    /\ [][(w.open /\ w.closed /\ ret'.op \in WriterOps)
             => (w'.closed /\ w'.committed = w.committed
                          /\ w'.cancelled = w.cancelled)]_vars

(* Commit and Cancel both refused on a closed writer *)
C4_Witness ==
    /\ w.open /\ w.closed /\ ~w.committed /\ ~w.cancelled
    /\ ret.op \in {"Commit", "Cancel"} /\ ret.err = AlreadyClosed

(* C5: Write on a writer with closed, committed or cancelled set returns an *)
(* error and 0, changes nothing in the writer and issues no store call.     *)
C5_WriteRefused ==
    [][(ret'.op = "Write" /\ w.open /\ (w.closed \/ w.committed \/ w.cancelled))
          => /\ ret'.err \in Already
             /\ ret'.n = 0
             /\ w' = w
             /\ calls' = <<>>
             /\ StoreUnchanged]_vars

(* A Write refused on a cancelled writer that still holds buffered bytes *)
C5_Witness ==
    /\ ret.op = "Write" /\ ret.err = AlreadyCancelled
    /\ w.cancelled /\ w.size > 0 /\ Len(w.readyPart) > 0

(* C10: with ChunkSize >= minChunkSize, no CompleteMultipartUpload issued   *)
(* by a writer, in the repair of Write or in Commit, lists a part other     *)
(* than the last whose stored bytes are fewer than minChunkSize, over       *)
(* successive writers on one key.                                           *)
CompleteCalls == {i \in 1..Len(calls) : calls[i].name = "CompleteMultipartUpload"}

C10_NoSmallInnerPart ==
    \A i \in CompleteCalls :
        \A k \in 1..(Len(calls[i].parts) - 1) :
            Len(calls[i].parts[k].ETag) >= minChunkSize

(* A resumed writer, whose upload ended on a small part, completes an      *)
(* upload of two parts                                                      *)
C10_Witness ==
    /\ resumed
    /\ ret.op = "Commit" /\ ret.err = NoErr
    /\ \E i \in CompleteCalls : Len(calls[i].parts) >= 2

-----------------------------------------------------------------------------
(* Properties of Move and copy *)

CallsNamed(cs, name) == {i \in 1..Len(cs) : cs[i].name = name}

Same(objs1, objs2, key) ==
    IF key \in DOMAIN objs1
    THEN key \in DOMAIN objs2 /\ objs2[key] = objs1[key]
    ELSE key \notin DOMAIN objs2

(* C6: when the copy step of Move fails, Move returns a failure *)
C6_MoveReportsCopyFailure ==
    (ret.op = "Move" /\ ret.sub # NoErr) => ret.err # NoErr

(* C7: Move issues the delete of the source only after copy has returned    *)
(* nil, as its last store call; when copy fails no delete is issued and the *)
(* source object is as it was.                                              *)
C7_DeleteOnlyAfterCopy ==
    [][ret'.op = "Move"
          => LET src == cosPath(ret'.args[1])
                 dels == CallsNamed(calls', "Delete")
             IN  /\ dels # {} => (ret'.sub = NoErr /\ dels = {Len(calls')}
                                  /\ calls'[Len(calls')].key = src)
                 /\ ret'.sub # NoErr => (dels = {} /\ Same(objects, objects', src))]_vars

(* A multipart copy of an existing source failed and was aborted *)
C7_Witness ==
    /\ ret.op = "Move" /\ ret.sub = TransportError
    /\ cosPath(ret.args[1]) \in DOMAIN objects
    /\ CallsNamed(calls, "AbortMultipartUpload") # {}

(* C8: after Move of an existing object returns nil with no store call      *)
(* failed, GetContent of the destination returns the source's bytes and     *)
(* GetContent of the source returns the not-found error.                    *)
C8_MoveRoundTrip ==
    [][(ret'.op = "Move" /\ ret'.err = NoErr /\ clean'
          /\ cosPath(ret'.args[1]) \in DOMAIN objects)
          => LET after == EnvOf(objects', uploads', {})
                 d == GetContent(after, ret'.args[2])
                 s == GetContent(after, ret'.args[1])
             IN  /\ d.err = NoErr /\ d.val = objects[cosPath(ret'.args[1])]
                 /\ s.err = PathNotFound]_vars

(* C8, the part the code satisfies: the destination holds the source's      *)
(* bytes and GetContent of the source fails.                                *)
C8_ContentMoved ==
    [][(ret'.op = "Move" /\ ret'.err = NoErr /\ clean'
          /\ cosPath(ret'.args[1]) \in DOMAIN objects)
          => LET after == EnvOf(objects', uploads', {})
                 d == GetContent(after, ret'.args[2])
                 s == GetContent(after, ret'.args[1])
             IN  /\ d.err = NoErr /\ d.val = objects[cosPath(ret'.args[1])]
                 /\ s.err # NoErr]_vars

(* C9: copy picks its path from the size of the source alone: up to the     *)
(* threshold one Copy call and no multipart call; above it no Copy call,    *)
(* InitiateMultipartUpload first and, when nothing fails, one part-copy per *)
(* part and one CompleteMultipartUpload.                                    *)
C9_PathBySize ==
    [][(ret'.op = "Move" /\ cosPath(ret'.args[1]) \in DOMAIN objects)
          => LET size == Len(objects[cosPath(ret'.args[1])])
                 n(name) == Cardinality(CallsNamed(calls', name))
                 parts == (size + multipartCopyChunkSize - 1)
                              \div multipartCopyChunkSize
             IN  /\ calls'[1].name = "BucketGet"
                 /\ Len(calls') = 1 => ret'.sub # NoErr
                 /\ Len(calls') >= 2 =>
                      IF size <= multipartCopyThresholdSize
                      THEN /\ calls'[2].name = "Copy"
                           /\ n("Copy") = 1
                           /\ n("InitiateMultipartUpload") = 0
                           /\ n("UploadPartCopy") = 0
                           /\ n("CompleteMultipartUpload") = 0
                      ELSE /\ calls'[2].name = "InitiateMultipartUpload"
                           /\ n("Copy") = 0
                           /\ n("InitiateMultipartUpload") = 1
                           /\ clean' => /\ n("UploadPartCopy") = parts
                                        /\ n("CompleteMultipartUpload") = 1]_vars

(* An object one byte above the threshold was moved by a multipart copy *)
C9_Witness ==
    /\ ret.op = "Move" /\ ret.err = NoErr /\ ret.sub = NoErr /\ clean
    /\ cosPath(ret.args[2]) \in DOMAIN objects
    /\ Len(objects[cosPath(ret.args[2])]) = multipartCopyThresholdSize + 1
    /\ CallsNamed(calls, "CompleteMultipartUpload") # {}

-----------------------------------------------------------------------------
(* Properties of the metadata operations *)

PathOf(r) == r.args[1]

KeyOf(r) == cosPath(PathOf(r))

Under(k, key) == HasPrefix(k, key \o <<"/">>)

(* C11: Delete(path) removes no key other than the mapped path and the keys *)
(* under mapped path + "/", and leaves every other object as it was.        *)
C11_DeleteWithinPath ==
    [][ret'.op = "Delete"
          => /\ \A k \in DOMAIN objects \ DOMAIN objects' :
                    k = KeyOf(ret') \/ Under(k, KeyOf(ret'))
             /\ \A k \in DOMAIN objects' :
                    k \in DOMAIN objects /\ objects'[k] = objects[k]]_vars

(* Delete of /a removed the key a and left the key ab *)
C11_Witness ==
    /\ ret.op = "Delete" /\ PathOf(ret) = <<"/", "a">> /\ ret.err = NoErr
    /\ <<"a", "b">> \in DOMAIN objects
    /\ <<"a">> \notin DOMAIN objects
    /\ \E i \in CallsNamed(calls, "DeleteMulti") : calls[i].parts = <<(<<"a">>)>>

(* C12: with no store failure, Stat(path) reports a file with the stored    *)
(* size when a key equals the mapped path, a directory when no key equals   *)
(* it and some key lies under it, and not-found when no key has the mapped  *)
(* path as a prefix.                                                        *)
C12_StatSynthesis ==
    (ret.op = "Stat" /\ clean)
        => /\ KeyOf(ret) \in DOMAIN objects
                => /\ ret.err = NoErr
                   /\ ret.val = [IsDir |-> FALSE, Size |-> Len(objects[KeyOf(ret)])]
           /\ (KeyOf(ret) \notin DOMAIN objects
                 /\ \E k \in DOMAIN objects :
                       IF KeyOf(ret) = <<>> THEN TRUE ELSE Under(k, KeyOf(ret)))
                => ret.err = NoErr /\ ret.val.IsDir
           /\ (\A k \in DOMAIN objects : ~HasPrefix(k, KeyOf(ret)))
                => ret.err = PathNotFound

(* Stat of /a found a directory although the first listed key, a-b, is not  *)
(* under a/                                                                 *)
C12_Witness ==
    /\ ret.op = "Stat" /\ clean /\ PathOf(ret) = <<"/", "a">>
    /\ ret.err = NoErr /\ ret.val.IsDir
    /\ DOMAIN objects = {<<"a", "-", "b">>, <<"a", "/", "x">>}

(* C13: on an otherwise empty bucket and with no store failure, after       *)
(* PutContent(path, contents) of a top-level path List("/") returns that    *)
(* path alone, Stat(path) a file of size len(contents) and GetContent(path) *)
(* the contents; after Delete(path) returns nil Stat(path) is not-found.    *)
C13_Lifecycle ==
    [][/\ (ret'.op = "PutContent" /\ ret'.err = NoErr /\ clean' /\ objects = <<>>
             /\ IndexOf(KeyOf(ret'), "/", 1) = 0)
          => /\ driverList(EnvOf(objects', uploads', {}), RootPath).err = NoErr
             /\ driverList(EnvOf(objects', uploads', {}), RootPath).val = <<PathOf(ret')>>
             /\ Stat(EnvOf(objects', uploads', {}), PathOf(ret')).err = NoErr
             /\ Stat(EnvOf(objects', uploads', {}), PathOf(ret')).val
                    = [IsDir |-> FALSE, Size |-> Len(ret'.val)]
             /\ GetContent(EnvOf(objects', uploads', {}), PathOf(ret')).err = NoErr
             /\ GetContent(EnvOf(objects', uploads', {}), PathOf(ret')).val = ret'.val
       /\ (ret'.op = "Delete" /\ ret'.err = NoErr /\ clean'
             /\ DOMAIN objects = {KeyOf(ret')})
          => /\ Stat(EnvOf(objects', uploads', {}), PathOf(ret')).err = PathNotFound
             /\ objects' = <<>>]_vars

(* The only object of the bucket, at a top-level path, was deleted *)
C13_Witness ==
    /\ ret.op = "Delete" /\ ret.err = NoErr /\ clean
    /\ objects = <<>>
    /\ IndexOf(KeyOf(ret), "/", 1) = 0
    /\ \E i \in CallsNamed(calls, "DeleteMulti") : calls[i].parts = <<KeyOf(ret)>>

(* C14: GetContent of a path with no object returns PathNotFoundError,      *)
(* unless the transport failed.                                             *)
C14_GetContentNotFound ==
    (ret.op = "GetContent" /\ KeyOf(ret) \notin DOMAIN objects)
        => ret.err \in {PathNotFound, TransportError}

(* The key of the directory List(opath) lists *)
ListedKey(r) == cosPath(listPath(PathOf(r)))

(* A rooted path: it begins with "/", and its segments are not empty *)
ValidPath(p) ==
    /\ Len(p) > 1
    /\ p[1] = "/"
    /\ p[Len(p)] # "/"
    /\ \A i \in 1..(Len(p) - 1) : ~(p[i] = "/" /\ p[i + 1] = "/")

(* k is a child of the directory whose key is dir: a key of the bucket      *)
(* directly under it, or a common prefix of such keys                       *)
ChildOf(k, dir) ==
    /\ HasPrefix(k, dir)
    /\ Len(k) > Len(dir)
    /\ IndexOf(k, "/", Len(dir) + 1) = 0
    /\ \/ k \in DOMAIN objects
       \/ \E key \in DOMAIN objects : Under(key, k)

(* C19: every entry List returns is a rooted path with non-empty segments   *)
(* that names a key or a common prefix under the listed directory, and the  *)
(* key equal to the listed directory's own prefix is not among them.        *)
C19_ListEntries ==
    (ret.op = "List" /\ ret.err = NoErr)
        => \A i \in 1..Len(ret.val) :
              /\ ValidPath(ret.val[i])
              /\ ChildOf(cosPath(ret.val[i]), ListedKey(ret))
              /\ cosPath(ret.val[i]) # ListedKey(ret)
              /\ ret.val[i] # PathOf(ret)

(* List of /a, whose marker key a/ is in the bucket, returned /a/x alone *)
C19_Witness ==
    /\ ret.op = "List" /\ ret.err = NoErr /\ PathOf(ret) = <<"/", "a">>
    /\ MarkerKey \in DOMAIN objects
    /\ ret.val = <<(<<"/", "a", "/", "x">>)>>

(* C20: with no store failure, List of a non-root path under which the      *)
(* bucket has no key but the directory's own returns not-found, and returns *)
(* a non-empty list otherwise; List("/") of an empty bucket returns an      *)
(* empty list and no error.                                                 *)
C20_EmptyListing ==
    (ret.op = "List" /\ clean)
        => /\ (PathOf(ret) # RootPath
                 /\ \A k \in DOMAIN objects :
                        ~HasPrefix(k, ListedKey(ret)) \/ k = ListedKey(ret))
                => ret.err = PathNotFound
           /\ (PathOf(ret) # RootPath
                 /\ \E k \in DOMAIN objects :
                        HasPrefix(k, ListedKey(ret)) /\ k # ListedKey(ret))
                => ret.err = NoErr /\ ret.val # <<>>
           /\ (PathOf(ret) = RootPath /\ objects = <<>>)
                => ret.err = NoErr /\ ret.val = <<>>

(* List of /a returned not-found although the key a is in the bucket: no    *)
(* key lies under a/                                                        *)
C20_Witness ==
    /\ ret.op = "List" /\ clean /\ PathOf(ret) = <<"/", "a">>
    /\ ret.err = PathNotFound
    /\ <<"a">> \in DOMAIN objects

-----------------------------------------------------------------------------
(* Properties of driver.Writer *)

(* The bytes the store holds for the parts of upload id *)
StoredBytes(id) ==
    Len(Flatten([i \in 1..Len(PartRecords(uploads[id].parts, 1)) |->
                    PartRecords(uploads[id].parts, 1)[i].ETag]))

(* C15: Writer(path, append=true) initiates no upload and changes nothing   *)
(* in the store; when it succeeds the writer is bound to an in-flight       *)
(* upload whose key is the mapped key, its parts are the parts stored for   *)
(* that upload and its size their total; when no in-flight upload has that  *)
(* key it returns not-found (or the transport's error).                     *)
C15_Resume ==
    [][(ret'.op = "Writer" /\ ret'.args[2])
          => /\ CallsNamed(calls', "InitiateMultipartUpload") = {}
             /\ uploads' = uploads /\ objects' = objects
             /\ ret'.err = NoErr
                  => /\ w'.open /\ w'.key = KeyOf(ret')
                     /\ w'.uploadID \in InFlight(KeyOf(ret'))
                     /\ w'.parts = PartRecords(uploads[w'.uploadID].parts, 1)
                     /\ w'.size = StoredBytes(w'.uploadID)
                     /\ w'.readyPart = <<>> /\ w'.pendingPart = <<>>
             /\ InFlight(KeyOf(ret')) = {}
                  => ret'.err \in {PathNotFound, TransportError}]_vars

(* A writer resumed the upload of the key a, with its stored part, while    *)
(* an upload of the key ab was in flight                                    *)
C15_Witness ==
    /\ ret.op = "Writer" /\ ret.args[2] /\ ret.err = NoErr
    /\ PathOf(ret) = <<"/", "a">>
    /\ w.size > 0 /\ w.parts # <<>>
    /\ InFlight(<<"a", "b">>) # {}

-----------------------------------------------------------------------------
(* Properties of Commit, Cancel and Close *)

Writable(w0) == w0.open /\ ~w0.closed /\ ~w0.committed /\ ~w0.cancelled

(* The parts of a writer as CompleteMultipartUpload lists them *)
Listed(parts) ==
    [i \in 1..Len(parts) |-> [PartNumber |-> parts[i].PartNumber, ETag |-> parts[i].ETag]]

StrictlyAscending(parts) ==
    \A i \in 1..(Len(parts) - 1) : parts[i].PartNumber < parts[i + 1].PartNumber

(* C16 as stated: Commit on a writable writer sets committed and issues     *)
(* exactly one CompleteMultipartUpload.                                     *)
C16_CommitAlwaysCompletes ==
    [][(ret'.op = "Commit" /\ Writable(w))
          => /\ w'.committed
             /\ Cardinality(CallsNamed(calls', "CompleteMultipartUpload")) = 1]_vars

(* C16 amended: Commit on a writable writer first runs flushPart; if its    *)
(* part upload fails Commit returns that error, committed stays unset and   *)
(* neither CompleteMultipartUpload nor AbortMultipartUpload is issued.      *)
(* Otherwise it sets committed and issues exactly one                       *)
(* CompleteMultipartUpload for the writer's upload, listing every recorded  *)
(* part in strictly ascending part-number order; if that call fails, one    *)
(* AbortMultipartUpload for the same upload follows and Commit returns the  *)
(* completion's error, whatever the abort returned.                         *)
C16_Commit ==
    [][(ret'.op = "Commit" /\ Writable(w))
          => LET ups == CallsNamed(calls', "UploadPart")
                 cs == CallsNamed(calls', "CompleteMultipartUpload")
                 as == CallsNamed(calls', "AbortMultipartUpload")
             IN  /\ ups = IF w.readyPart = <<>> /\ w.pendingPart = <<>> THEN {} ELSE {1}
                 /\ IF \E i \in ups : calls'[i].err # NoErr
                    THEN /\ ret'.err = calls'[1].err
                         /\ ~w'.committed
                         /\ cs = {} /\ as = {}
                    ELSE /\ w'.committed
                         /\ cs = {Cardinality(ups) + 1}
                         /\ \A i \in cs :
                              /\ calls'[i].key = w.key /\ calls'[i].id = w.uploadID
                              /\ calls'[i].parts = Listed(w'.parts)
                              /\ Len(w'.parts) = Len(w.parts) + Cardinality(ups)
                              /\ SubSeq(w'.parts, 1, Len(w.parts)) = w.parts
                              /\ StrictlyAscending(calls'[i].parts)
                              /\ IF calls'[i].err # NoErr
                                 THEN /\ as = {i + 1}
                                      /\ Len(calls') = i + 1
                                      /\ calls'[i + 1].key = w.key
                                      /\ calls'[i + 1].id = w.uploadID
                                      /\ ret'.err = calls'[i].err
                                 ELSE /\ as = {}
                                      /\ Len(calls') = i
                                      /\ ret'.err = NoErr]_vars

(* Commit flushed a second part, its CompleteMultipartUpload of the two     *)
(* parts failed, the abort that followed succeeded, and Commit returned the *)
(* completion's error                                                       *)
C16_Witness ==
    /\ ret.op = "Commit" /\ ret.err = TransportError /\ w.committed
    /\ Len(calls) = 3
    /\ calls[1].name = "UploadPart" /\ calls[1].err = NoErr
    /\ calls[2].name = "CompleteMultipartUpload" /\ calls[2].err = TransportError
    /\ Len(calls[2].parts) = 2
    /\ calls[3].name = "AbortMultipartUpload" /\ calls[3].err = NoErr

(* C17: Cancel on a closed or committed writer returns an "already ..."     *)
(* error, issues no store call and changes neither the writer nor the       *)
(* store; on any other writer it sets cancelled, issues exactly one store   *)
(* call, AbortMultipartUpload for the writer's upload, and returns what     *)
(* that call returned.                                                      *)
C17_Cancel ==
    [][(ret'.op = "Cancel" /\ w.open)
          => IF w.closed \/ w.committed
             THEN /\ ret'.err = (IF w.closed THEN AlreadyClosed ELSE AlreadyCommitted)
                  /\ calls' = <<>>
                  /\ w' = w
                  /\ StoreUnchanged
             ELSE /\ w' = [w EXCEPT !.cancelled = TRUE]
                  /\ Len(calls') = 1
                  /\ calls'[1].name = "AbortMultipartUpload"
                  /\ calls'[1].key = w.key /\ calls'[1].id = w.uploadID
                  /\ ret'.err = calls'[1].err
                  /\ objects' = objects]_vars

(* Cancel set cancelled on a writer holding bytes although its              *)
(* AbortMultipartUpload failed, and returned that failure                   *)
C17_Witness ==
    /\ ret.op = "Cancel" /\ ret.err = TransportError
    /\ w.cancelled /\ ~w.closed /\ ~w.committed /\ w.size > 0
    /\ Len(calls) = 1 /\ calls[1].name = "AbortMultipartUpload"
    /\ calls[1].err = TransportError
    /\ InFlight(w.key) = {w.uploadID}

(* C18: Close on a writable writer sets closed and issues neither           *)
(* CompleteMultipartUpload nor AbortMultipartUpload, so that the writer's   *)
(* upload stays in flight; with both buffers empty it issues no store call, *)
(* and otherwise, when it returns nil, every buffered byte went into one    *)
(* uploaded part and the buffers are empty.                                 *)
C18_CloseFlushesAll ==
    [][(ret'.op = "Close" /\ Writable(w))
          => /\ w'.closed
             /\ CallsNamed(calls', "CompleteMultipartUpload") = {}
             /\ CallsNamed(calls', "AbortMultipartUpload") = {}
             /\ w.uploadID \in InFlight(w.key)
                  => uploads'[w.uploadID].status = "open"
             /\ (w.readyPart = <<>> /\ w.pendingPart = <<>>)
                  => calls' = <<>> /\ ret'.err = NoErr
             /\ (~(w.readyPart = <<>> /\ w.pendingPart = <<>>) /\ ret'.err = NoErr)
                  => /\ Len(calls') = 1
                     /\ calls'[1].name = "UploadPart"
                     /\ calls'[1].size = Len(w.readyPart) + Len(w.pendingPart)
                     /\ uploads'[w.uploadID].parts[calls'[1].num]
                            = w.readyPart \o w.pendingPart
                     /\ w'.readyPart = <<>> /\ w'.pendingPart = <<>>]_vars

-----------------------------------------------------------------------------
(* Properties of the errors of Delete *)

(* C21: when a store call issued by Delete fails (the first listing, a bulk *)
(* delete or a listing fetched again), Delete returns that call's error:    *)
(* neither nil nor not-found.                                               *)
C21_DeleteReturnsStoreError ==
    ret.op = "Delete"
        => \A i \in 1..Len(calls) :
              calls[i].err # NoErr => ret.err = calls[i].err

-----------------------------------------------------------------------------
(* Properties of the concurrent copy *)

CopyInFlight == {i \in 1..Len(cp.task) : cp.task[i] = "inflight"}

(* C22: at no moment of a multipart copy are more than                      *)
(* multipartCopyMaxConcurrency UploadPartCopy requests in flight.           *)
C22_BoundedConcurrency ==
    Cardinality(CopyInFlight) <= multipartCopyMaxConcurrency

(* As many requests in flight as the limiter has places, and a task waiting *)
(* for a place                                                              *)
C22_Witness ==
    /\ Cardinality(CopyInFlight) = multipartCopyMaxConcurrency
    /\ \E i \in 1..Len(cp.task) : cp.task[i] = "start"

(* The positions in errChan's history of the errors the tasks reported *)
CopyErrors == {k \in 1..Len(cp.sent) : cp.sent[k] # NoErr}

(* C23: once a part-copy task has reported an error no                      *)
(* CompleteMultipartUpload is issued, and when copy returns it has issued   *)
(* AbortMultipartUpload for the destination upload and returns the first    *)
(* error sent on errChan, in every interleaving.                            *)
C23_AbortOnFirstError ==
    CopyErrors # {}
        => /\ CallsNamed(calls, "CompleteMultipartUpload") = {}
           /\ cp.main = "done"
                => /\ \E i \in CallsNamed(calls, "AbortMultipartUpload") :
                         calls[i].key = DestKey /\ calls[i].id = cp.uploadID
                   /\ ret.op = "copy"
                   /\ \E k \in CopyErrors :
                         /\ \A j \in CopyErrors : k <= j
                         /\ ret.err = cp.sent[k]

(* copy returned the error of task 1 (part 2), which it received first, and *)
(* aborted; task 0 then found the upload gone                               *)
C23_Witness ==
    /\ cp.main = "done" /\ ret.op = "copy" /\ ret.err = TransportError
    /\ Len(cp.task) = 3
    /\ cp.terr[2] = TransportError /\ cp.terr[1] = NoSuchUpload
    /\ cp.sent = <<TransportError, NoSuchUpload>>
    /\ CallsNamed(calls, "AbortMultipartUpload") # {}

(* C24: when CompleteMultipartUpload is issued by a multipart copy every    *)
(* one of the numParts tasks has reported success, and slot i of the parts  *)
(* it carries holds part number i + 1 with the entity-tag returned to task  *)
(* i, the bytes of its range of the source.                                 *)
C24_CompleteAfterAllParts ==
    \A k \in CallsNamed(calls, "CompleteMultipartUpload") :
        /\ Len(cp.task) = numParts(cp.size)
        /\ \A i \in 1..Len(cp.task) :
              cp.task[i] \in {"reported", "done"} /\ cp.terr[i] = NoErr
        /\ calls[k].parts =
              [i \in 1..numParts(cp.size) |->
                  [PartNumber |-> i,
                   ETag |-> SubSeq(objects[SourceKey], partFirstByte(i - 1) + 1,
                                   partLastByte(i - 1, cp.size) + 1)]]

(* A copy of three parts was completed although the store served the last  *)
(* part's request before the first part's                                   *)
C24_Witness ==
    /\ cp.main = "done" /\ ret.op = "copy" /\ ret.err = NoErr
    /\ Len(cp.task) = 3
    /\ DestKey \in DOMAIN objects /\ objects[DestKey] = objects[SourceKey]
    /\ \E a, b \in CallsNamed(calls, "UploadPartCopy") :
          a < b /\ calls[a].num = 3 /\ calls[b].num = 1

-----------------------------------------------------------------------------
(* Properties of the writer's buffers and parts *)

(* The bytes of the parts a CompleteMultipartUpload call lists *)
BytesListed(c) == Flatten([i \in 1..Len(c.parts) |-> c.parts[i].ETag])

(* C25: when Commit returns nil, the parts its CompleteMultipartUpload      *)
(* carries hold exactly the bytes the Write calls accepted, in order, their *)
(* total is Size(), and both buffers are empty, also after a Write that     *)
(* returned the error of a failed part upload.                              *)
C25_CommitHoldsEveryByte ==
    (ret.op = "Commit" /\ ret.err = NoErr)
        => /\ \E i \in CallsNamed(calls, "CompleteMultipartUpload") :
                 /\ BytesListed(calls[i]) = written
                 /\ Len(BytesListed(calls[i])) = w.size
           /\ w.readyPart = <<>> /\ w.pendingPart = <<>>

(* Write ran the small-last-part repair: the calls of the step begin with   *)
(* the CompleteMultipartUpload of the upload the writer held                *)
Repaired(w0, cs) ==
    /\ Len(cs) > 0
    /\ cs[1].name = "CompleteMultipartUpload"
    /\ cs[1].id = w0.uploadID

(* The bytes stored in the part the writer recorded last *)
LastPartBytes(w0) == Len(w0.parts[Len(w0.parts)].ETag)

(* C26: a Write on a writable writer runs the small-last-part repair        *)
(* exactly when the part recorded last holds fewer than minChunkSize bytes, *)
(* and no more than once; after the flush of a part of ChunkSize >=         *)
(* minChunkSize bytes it runs none.                                         *)
C26_RepairOnlyAfterSmallPart ==
    [][(ret'.op = "Write" /\ Writable(w))
          => /\ Repaired(w, calls')
                  <=> (Len(w.parts) > 0 /\ LastPartBytes(w) < minChunkSize)
             /\ Cardinality(CallsNamed(calls', "CompleteMultipartUpload")) <= 1]_vars

(* C27: in every state of a writer, also after calls whose part upload      *)
(* failed, readyPart and pendingPart each hold at most ChunkSize bytes.     *)
C27_BuffersCapped ==
    w.open => Len(w.readyPart) <= ChunkSize /\ Len(w.pendingPart) <= ChunkSize

(* C28: a part uploaded by the flush inside Write has at least ChunkSize    *)
(* bytes; an UploadPart of fewer than ChunkSize bytes is issued only by     *)
(* Close or Commit.                                                         *)
C28_SmallPartOnlyAtEnd ==
    [][\A i \in CallsNamed(calls', "UploadPart") :
          /\ ret'.op \in {"Write", "Close", "Commit"}
          /\ ret'.op = "Write" => calls'[i].size >= ChunkSize
          /\ calls'[i].size < ChunkSize => ret'.op \in {"Close", "Commit"}]_vars

(* A Write flushed a part longer than ChunkSize: the buffers a failed       *)
(* Commit had joined                                                        *)
C28_Witness ==
    /\ ret.op = "Write" /\ ret.err = NoErr
    /\ \E i \in CallsNamed(calls, "UploadPart") :
          calls[i].err = NoErr /\ calls[i].size > ChunkSize

(* The repair of a Write failed: the step began the repair, returned an     *)
(* error and never reached the loop's flush                                 *)
RepairFailed(w0, r, cs) ==
    /\ Repaired(w0, cs)
    /\ r.err \notin {NoErr, Diverges}
    /\ CallsNamed(cs, "UploadPart") = {}

(* C29: when the repair of a Write fails at any of its steps, no upload of  *)
(* the writer's key is left in flight when the error is returned, and the   *)
(* parts the writer lists are parts of the upload whose id it holds.        *)
C29_FailedRepairAborts ==
    [][(ret'.op = "Write" /\ Writable(w) /\ RepairFailed(w, ret', calls'))
          => /\ {id \in 1..Len(uploads') :
                    uploads'[id].status = "open" /\ uploads'[id].key = w.key} = {}
             /\ w'.uploadID # w.uploadID
                  => PartsKnown(uploads'[w'.uploadID], w'.parts)]_vars

(* C30 as stated: Write, Close and Cancel issue no CompleteMultipartUpload  *)
(* and leave the bucket as it was.                                          *)
C30_OnlyCommitCompletes ==
    [][(ret'.op \in {"Write", "Close", "Cancel"} /\ w.open)
          => /\ CallsNamed(calls', "CompleteMultipartUpload") = {}
             /\ objects' = objects]_vars

(* C30 amended: Close and Cancel issue no CompleteMultipartUpload and leave *)
(* the bucket as it was.  Write issues one only as the first call of its    *)
(* small-last-part repair; a Write without repair leaves the bucket as it   *)
(* was, and a Write whose repair completes the upload puts at the writer's  *)
(* key, before any Commit, the bytes of the parts recorded so far.  No      *)
(* other key changes in any call of the writer.                             *)
C30_OnlyCompletionWrites ==
    [][(ret'.op \in WriterOps /\ w.open)
          => /\ ret'.op \in {"Close", "Cancel"}
                  => /\ CallsNamed(calls', "CompleteMultipartUpload") = {}
                     /\ objects' = objects
             /\ ret'.op = "Write"
                  => /\ CallsNamed(calls', "CompleteMultipartUpload")
                            = (IF Writable(w) /\ Repaired(w, calls') THEN {1} ELSE {})
                     /\ (CallsNamed(calls', "CompleteMultipartUpload") = {}
                           \/ calls'[1].err # NoErr)
                            => objects' = objects
                     /\ objects' # objects
                            => objects'[w.key] = BytesListed(calls'[1])
             /\ \A k \in (DOMAIN objects \cup DOMAIN objects') \ {w.key} :
                    Same(objects, objects', k)]_vars

(* A Write on a writer resumed on an upload whose only part is shorter than *)
(* minChunkSize completed that upload in its repair: the part's bytes are   *)
(* at the writer's key before any Commit                                    *)
C30_Witness ==
    /\ ret.op = "Write" /\ ret.err = NoErr /\ resumed
    /\ ~w.committed /\ succeeded = {}
    /\ calls # <<>> /\ calls[1].name = "CompleteMultipartUpload"
    /\ Len(calls[1].parts) = 1
    /\ Len(BytesListed(calls[1])) < minChunkSize
    /\ WriterKey \in DOMAIN objects /\ objects[WriterKey] = BytesListed(calls[1])


-----------------------------------------------------------------------------
(* Properties of Write's count and of the copy's parts *)

(* The bytes a writer holds: those of the parts it lists, then its buffers *)
Held(w0) ==
    Flatten([i \in 1..Len(w0.parts) |-> w0.parts[i].ETag])
        \o w0.readyPart \o w0.pendingPart

(* C31: a Write call that returns n, with or without an error, increases    *)
(* Size() by exactly n; on success n = len(p); when a part upload failed n  *)
(* is the number of bytes of p already buffered, a prefix of p that the     *)
(* writer's parts and buffers hold.                                         *)
C31_SizeTracksWrite ==
    [][(ret'.op = "Write" /\ w.open /\ ret'.err # Diverges)
          => /\ w'.size = w.size + ret'.n
             /\ ret'.err = NoErr => ret'.n = ret'.args[1]
             /\ ret'.n <= ret'.args[1]
             /\ \A i \in 1..ret'.n :
                    \E j \in 1..Len(Held(w')) : Held(w')[j] = w.size + i]_vars

(* A Write of more bytes than it accepted: its part upload failed after     *)
(* both buffers were filled                                                 *)
C31_Witness ==
    /\ ret.op = "Write" /\ ret.err = TransportError
    /\ ret.n > 0 /\ ret.n < ret.args[1]
    /\ w.size = Len(written)

(* C32: when the multipart path of copy returns an error after the          *)
(* destination upload was initiated, whether a part-copy or the final       *)
(* CompleteMultipartUpload failed, it has issued AbortMultipartUpload for   *)
(* that upload.                                                             *)
C32_FailedCopyAborts ==
    (cp.main = "done" /\ ret.op = "copy" /\ ret.err # NoErr /\ cp.uploadID # 0)
        => \E i \in CallsNamed(calls, "AbortMultipartUpload") :
              calls[i].key = DestKey /\ calls[i].id = cp.uploadID

(* The part-copy requests the store has served *)
PartCopyRequests == CallsNamed(calls, "UploadPartCopy")

(* The tasks whose request the store has served *)
Served == {i \in 1..Len(cp.task) : cp.task[i] \in {"responded", "reported", "done"}}

(* C33: a multipart copy of a source of size > threshold issues exactly     *)
(* numParts = ceil(size / multipartCopyChunkSize) part-copy requests, one   *)
(* per part number 1..numParts; the byte ranges                             *)
(* [i*chunk, min((i+1)*chunk, size)-1] are non-empty, disjoint, in          *)
(* part-number order and cover exactly [0, size-1], and each request copies *)
(* the bytes of its range.                                                  *)
C33_PartRanges ==
    cp.uploadID # 0
        => LET size == cp.size
               N == numParts(size)
           IN  /\ size > multipartCopyThresholdSize
               /\ N * multipartCopyChunkSize >= size
               /\ (N - 1) * multipartCopyChunkSize < size
               /\ Len(cp.task) = N
               /\ \A i \in 0..(N - 1) :
                      /\ partFirstByte(i) <= partLastByte(i, size)
                      /\ partLastByte(i, size) =
                            Min((i + 1) * multipartCopyChunkSize, size) - 1
                      /\ i = 0 => partFirstByte(i) = 0
                      /\ i > 0 => partFirstByte(i) = partLastByte(i - 1, size) + 1
                      /\ i = N - 1 => partLastByte(i, size) = size - 1
               /\ Cardinality(PartCopyRequests) = Cardinality(Served)
               /\ (\A i \in 1..N : cp.task[i] = "done")
                      => {calls[k].num : k \in PartCopyRequests} = 1..N
               /\ \A k \in PartCopyRequests :
                      /\ calls[k].num \in Served
                      /\ \A j \in PartCopyRequests :
                             calls[j].num = calls[k].num => j = k
                      /\ calls[k].size = partLastByte(calls[k].num - 1, size)
                                           - partFirstByte(calls[k].num - 1) + 1
                      /\ calls[k].err = NoErr
                            => cp.parts[calls[k].num].ETag =
                                 [b \in 1..calls[k].size |->
                                     partFirstByte(calls[k].num - 1) + b]

(* Every task of a copy of three parts has ended, the last part shorter     *)
(* than the chunk                                                           *)
C33_Witness ==
    /\ cp.main = "done" /\ ret.op = "copy" /\ ret.err = NoErr
    /\ cp.size = 2 * multipartCopyChunkSize + 1
    /\ \A i \in 1..Len(cp.task) : cp.task[i] = "done"
    /\ Cardinality(PartCopyRequests) = 3
    /\ \E k \in PartCopyRequests : calls[k].num = 3 /\ calls[k].size = 1

(* copy has returned and every task it dispatched has sent its result,      *)
(* left the limiter and ended                                               *)
CopyTerminated ==
    /\ cp.main = "done"
    /\ \A i \in 1..Len(cp.task) : cp.task[i] = "done"
    /\ Len(cp.sent) = Len(cp.task)

(* C34: every part-copy task dispatched by a multipart copy eventually      *)
(* sends its result, releases its place in the limiter and ends, also when  *)
(* copy has returned on an earlier error and nobody receives the remaining  *)
(* results; copy returns after receiving numParts results or the first      *)
(* error.                                                                   *)
C34_CopyTerminates ==
    /\ (cp.main # "idle") ~> CopyTerminated
    /\ [](cp.main = "done" /\ cp.uploadID # 0
            => \/ cp.received = Len(cp.task) /\ cp.err = NoErr
               \/ /\ cp.err # NoErr /\ cp.received < Len(cp.sent)
                  /\ cp.sent[cp.received + 1] = cp.err
                  /\ \A k \in 1..cp.received : cp.sent[k] = NoErr)

(* copy returned on the error of the first result; the other two tasks      *)
(* have sent theirs since, which nobody receives, and have ended            *)
C34_Witness ==
    /\ CopyTerminated /\ ret.op = "copy" /\ ret.err # NoErr
    /\ Len(cp.task) = 3 /\ cp.received = 0
    /\ cp.sent[1] # NoErr

(* C35: every Write call on a writer that is not closed, committed or       *)
(* cancelled returns, for every p and every reachable state of the writer,  *)
(* also the state left by a Write whose part upload failed.                 *)
C35_WriteReturns ==
    ret.op = "Write" => ret.err # Diverges

C37_ClosedWriterIsInert ==
    [][(w.open /\ w.closed /\ ret'.op \in WriterOps)
          => /\ CallsNamed(calls', "CompleteMultipartUpload") = {}
             /\ CallsNamed(calls', "AbortMultipartUpload") = {}
             /\ ret'.op \in {"Commit", "Cancel"}
                   => ret'.err = AlreadyClosed /\ StoreUnchanged /\ w' = w]_vars

(* Cancel was refused on a writer whose Close failed to flush: the upload   *)
(* is still in flight and the bytes are still in the buffer                 *)
C37_Witness ==
    /\ ret.op = "Cancel" /\ ret.err = AlreadyClosed
    /\ w.open /\ w.closed /\ ~w.committed /\ ~w.cancelled
    /\ failures > 0 /\ Len(w.readyPart) > 0
    /\ uploads[w.uploadID].status = "open"

-----------------------------------------------------------------------------
(* Properties of Delete and Stat on keys that share a prefix *)

(* The keys of objs that Delete(path) is to remove: the mapped path and the *)
(* keys under it                                                            *)
Subtree(objs, key) == {k \in DOMAIN objs : k = key \/ Under(k, key)}

(* C38: after Delete(path) returns nil with no store call failing, no key   *)
(* equal to the mapped path and no key under mapped path + "/" remains,     *)
(* also when sibling keys sort between the path and its descendants.        *)
C38_DeleteRemovesSubtree ==
    (ret.op = "Delete" /\ ret.err = NoErr /\ clean /\ PathOf(ret) # RootPath)
        => Subtree(objects, KeyOf(ret)) = {}

(* C39: Delete(path) returns nil only if it deleted at least one key; when  *)
(* no key equals the mapped path and none lies under mapped path + "/" it   *)
(* returns not-found, also when other keys share the prefix.                *)
C39_DeleteNotFound ==
    [][(ret'.op = "Delete" /\ clean' /\ PathOf(ret') # RootPath)
          => /\ ret'.err = NoErr => DOMAIN objects' # DOMAIN objects
             /\ Subtree(objects, KeyOf(ret')) = {} => ret'.err = PathNotFound]_vars

(* C40: Stat(path) reports a directory only if some key lies under mapped   *)
(* path + "/"; a path with no key of its own and no descendant, whose       *)
(* mapped key is a proper prefix of another key, is reported not-found.     *)
C40_StatDirNeedsDescendant ==
    (ret.op = "Stat" /\ clean /\ PathOf(ret) # RootPath)
        => /\ (ret.err = NoErr /\ ret.val.IsDir)
                 => \E k \in DOMAIN objects : Under(k, KeyOf(ret))
           /\ Subtree(objects, KeyOf(ret)) = {} => ret.err = PathNotFound

=============================================================================
